---- MODULE Spec2Model ----
(***************************************************************************)
(* Model of the resilient SSE transport of replicate-go:                   *)
(*   sse.Decoder   (internal/sse/decoder.go)                               *)
(*   sse.Streamer  (internal/sse/stream.go)                                *)
(* driven by a test server in the style of TestStreamTextWithRetries: it   *)
(* replays the stream from the start, or resumes right after the event     *)
(* named by the Last-Event-ID request header, and it may close the         *)
(* connection at any block boundary or inside a block.                      *)
(* Strings that cross the wire are sequences of one-character strings.     *)
(***************************************************************************)
EXTENDS Integers, Sequences, FiniteSets, TLC

\* ------------------------------------------------------------------ bounds
MaxEvents == 3
MaxRetriesBound == 2
MaxCalls == 3
MaxTextEvents == 2
MaxBuf == 2
ProjRetries == 1
MaxFileEvents == 2
MaxBodies == 2
ReqRetries == 3
MaxLines == 4
MaxDecodes == 3
MaxBackoffRetries == 35
MaxPolls == 3
MaxChanEvents == 2
MaxPages == 2

\* --------------------------------------------------------------- constants
StatusOK == 200
BadStatuses == {404, 500}

eventField == <<"e", "v", "e", "n", "t", ":">>
dataField == <<"d", "a", "t", "a", ":">>
idField == <<"i", "d", ":">>
retryField == <<"r", "e", "t", "r", "y", ":">>
space == <<" ">>
NL == "\n"

TypeOutput == <<"o", "u", "t", "p", "u", "t">>
TypeDone == <<"d", "o", "n", "e">>
TypeError == <<"e", "r", "r", "o", "r">>
TypeLogs == <<"l", "o", "g", "s">>
EmptyString == <<>>
CommentBlock == <<":", " ", "h", "i", NL, NL>>
AcceptEventStream == "text/event-stream"

\* error values
Nil == "nil"
ErrEOF == "io.EOF"
ErrUnexpectedEOF == "io.ErrUnexpectedEOF"
ErrMaximumRetries == "Exceeded maximum retries"
ErrInvalidStatus == "received invalid status code"
ErrCtx == "context canceled"
ErrReset == "connection reset by peer"
ErrClosedBody == "http: read on closed response body"
ErrErrorEvent == "Error event: "
ErrUnexpectedType == "unexpected type"
ErrParseURL == "Could not parse URL: "
ErrDataURL == "dataurl: invalid"
ErrDo == "http.Client.Do error"

\* ------------------------------------------------------- byte-string helpers
HasPrefix(s, p) == Len(s) >= Len(p) /\ SubSeq(s, 1, Len(p)) = p

\* variant: the prefix is removed twice
TrimPrefixTwice(s, p) ==
    LET once == IF HasPrefix(s, p) THEN SubSeq(s, Len(p) + 1, Len(s)) ELSE s
    IN  IF HasPrefix(once, p) THEN SubSeq(once, Len(p) + 1, Len(once)) ELSE once

TrimPrefix(s, p) == IF HasPrefix(s, p) THEN SubSeq(s, Len(p) + 1, Len(s)) ELSE s

HasSuffix(s, p) == Len(s) >= Len(p) /\ SubSeq(s, Len(s) - Len(p) + 1, Len(s)) = p

TrimSuffix(s, p) == IF HasSuffix(s, p) THEN SubSeq(s, 1, Len(s) - Len(p)) ELSE s

\* bufio.Reader.ReadBytes('\n') over the bytes r that the reader can still
\* obtain; srcErr is the error of the underlying reader once r is used up.
ReadBytes(r, srcErr) ==
    LET nls == {i \in 1..Len(r) : r[i] = NL}
    IN  IF nls = {}
        THEN [line |-> r, err |-> srcErr, rest |-> <<>>]
        ELSE LET n == CHOOSE i \in nls : \A j \in nls : i <= j
             IN  [line |-> SubSeq(r, 1, n), err |-> Nil, rest |-> SubSeq(r, n + 1, Len(r))]

buildEvent(t, id, data) == [Type |-> t, ID |-> id, Data |-> data]

RECURSIVE DecoderLoop(_, _, _, _, _)
DecoderLoop(r, srcErr, t, id, data) ==
    LET rb == ReadBytes(r, srcErr)
        line == rb.line
    IN  IF rb.err = ErrEOF
        THEN [e |-> buildEvent(t, id, data), err |-> ErrUnexpectedEOF, r |-> rb.rest]
        ELSE IF rb.err # Nil
        THEN [e |-> buildEvent(t, id, data), err |-> rb.err, r |-> rb.rest]
        ELSE IF line[1] = NL
        THEN [e |-> buildEvent(t, id, data), err |-> Nil, r |-> rb.rest]
        ELSE IF HasPrefix(line, eventField)
        THEN DecoderLoop(rb.rest, srcErr, TrimPrefix(SubSeq(line, 7, Len(line) - 1), space), id, data)
        ELSE IF HasPrefix(line, dataField)
        THEN DecoderLoop(rb.rest, srcErr, t, id, data \o TrimPrefix(SubSeq(line, 6, Len(line)), space))
        ELSE IF HasPrefix(line, idField)
        THEN DecoderLoop(rb.rest, srcErr, t, TrimPrefix(SubSeq(line, 4, Len(line) - 1), space), data)
        ELSE DecoderLoop(rb.rest, srcErr, t, id, data)

\* variant: a block cut short by the end of input is returned as an event
DecoderNextLenient(r, srcErr) ==
    LET d == DecoderLoop(r, srcErr, EmptyString, EmptyString, EmptyString)
    IN  IF d.err = ErrUnexpectedEOF THEN [e |-> d.e, err |-> Nil, r |-> d.r] ELSE d

\* variant: a block without fields is passed over
DecoderNextSkipsEmpty(r, srcErr) ==
    LET d == DecoderLoop(r, srcErr, EmptyString, EmptyString, EmptyString)
    IN  IF d.err = Nil /\ d.e = buildEvent(EmptyString, EmptyString, EmptyString)
        THEN DecoderLoop(d.r, srcErr, EmptyString, EmptyString, EmptyString)
        ELSE d

\* Decoder.Next
DecoderNext(r, srcErr) == DecoderLoop(r, srcErr, EmptyString, EmptyString, EmptyString)

\* ------------------------------------------------------------- test server
IdOf(i) == <<(<<"1", "2", "3", "4", "5">>)[i]>>
DataOf(i) == <<(<<"a", "b", "c", "d", "e">>)[i]>>

Kinds == {"comment", "output", "done"}

ServerEvent(i, kind, hasID) ==
    CASE kind = "comment" -> [Type |-> EmptyString, ID |-> EmptyString, Data |-> EmptyString]
      [] kind = "output" -> [Type |-> TypeOutput, ID |-> IF hasID THEN IdOf(i) ELSE EmptyString, Data |-> DataOf(i)]
      [] kind = "done" -> [Type |-> TypeDone, ID |-> IF hasID THEN IdOf(i) ELSE EmptyString, Data |-> EmptyString]

\* the streams the server may hold: "done", when present, is the last event
Streams ==
    UNION { { [i \in 1..n |-> ServerEvent(i, k[i], h[i])] :
                <<k, h>> \in { kh \in [1..n -> Kinds] \X [1..n -> BOOLEAN] :
                                 \A i \in 1..n : /\ (kh[1][i] = "done" => i = n)
                                                 /\ (kh[1][i] = "comment" => ~kh[2][i]) } } :
            n \in 1..MaxEvents }

\* one block on the wire, fields in the order the test server writes them
Render(e) ==
    IF e.Type = EmptyString /\ e.ID = EmptyString /\ e.Data = EmptyString
    THEN CommentBlock
    ELSE (IF e.Type = EmptyString THEN <<>> ELSE eventField \o space \o e.Type \o <<NL>>)
         \o (IF e.Data = EmptyString THEN <<>> ELSE dataField \o space \o e.Data \o <<NL>>)
         \o (IF e.ID = EmptyString THEN <<>> ELSE idField \o space \o e.ID \o <<NL>>)
         \o <<NL>>

\* index of the event the header names, 0 = replay from the start
ResumeFrom(evs, hdr) ==
    IF hdr # EmptyString /\ \E i \in 1..Len(evs) : evs[i].ID = hdr
    THEN CHOOSE i \in 1..Len(evs) : evs[i].ID = hdr
    ELSE 0

RECURSIVE WireFrom(_, _)
WireFrom(evs, i) == IF i > Len(evs) THEN <<>> ELSE Render(evs[i]) \o WireFrom(evs, i + 1)

RECURSIVE BlockEnds(_, _, _)
BlockEnds(evs, i, off) ==
    IF i > Len(evs) THEN {}
    ELSE {off + Len(Render(evs[i]))} \cup BlockEnds(evs, i + 1, off + Len(Render(evs[i])))

\* where the server may close the connection: before anything, after a
\* block, or just before the newline that terminates a block
CutPoints(evs, i) ==
    LET ends == BlockEnds(evs, i, 0)
    IN  {0} \cup ends \cup {n - 1 : n \in ends}

\* streams for the text projection: payloads of two bytes, and the event
\* types the projection tells apart
TextDataOf(i) == (<<(<<"a", "b">>), (<<"c", "d">>), (<<"e", "f">>), (<<"g", "h">>)>>)[i]

TextKinds == {"comment", "output", "outputid", "done", "error", "logs", "dataonly"}

TextEvent(i, kind) ==
    CASE kind = "comment" -> [Type |-> EmptyString, ID |-> EmptyString, Data |-> EmptyString]
      [] kind = "output" -> [Type |-> TypeOutput, ID |-> EmptyString, Data |-> TextDataOf(i)]
      [] kind = "outputid" -> [Type |-> TypeOutput, ID |-> IdOf(i), Data |-> TextDataOf(i)]
      [] kind = "done" -> [Type |-> TypeDone, ID |-> EmptyString, Data |-> EmptyString]
      [] kind = "error" -> [Type |-> TypeError, ID |-> EmptyString, Data |-> <<"x">>]
      [] kind = "logs" -> [Type |-> TypeLogs, ID |-> EmptyString, Data |-> <<"l">>]
      [] kind = "dataonly" -> [Type |-> EmptyString, ID |-> EmptyString, Data |-> TextDataOf(i)]

TextStreams ==
    UNION { { [i \in 1..n |-> TextEvent(i, k[i])] : k \in [1..n -> TextKinds] } :
            n \in 1..MaxTextEvents }

\* streams for the file projection: output events that hold a data URI, an
\* http URL, or something that is neither
dataScheme == <<"d", "a", "t", "a", ":">>
httpScheme == <<"h", "t", "t", "p">>

FileKinds == {"comment", "data", "http", "other", "done", "error"}

FileEvent(i, kind) ==
    CASE kind = "comment" -> [Type |-> EmptyString, ID |-> EmptyString, Data |-> EmptyString]
      [] kind = "data" -> [Type |-> TypeOutput, ID |-> EmptyString,
                           Data |-> dataScheme \o <<",">> \o DataOf(i)]
      [] kind = "http" -> [Type |-> TypeOutput, ID |-> EmptyString,
                           Data |-> httpScheme \o <<":", "/", "/">> \o DataOf(i)]
      [] kind = "other" -> [Type |-> TypeOutput, ID |-> EmptyString,
                            Data |-> <<"f", "t", "p", ":">> \o DataOf(i)]
      [] kind = "done" -> [Type |-> TypeDone, ID |-> EmptyString, Data |-> EmptyString]
      [] kind = "error" -> [Type |-> TypeError, ID |-> EmptyString, Data |-> <<"x">>]

FileStreams ==
    UNION { { [i \in 1..n |-> FileEvent(i, k[i])] : k \in [1..n -> FileKinds] } :
            n \in 1..MaxFileEvents }

\* the event NextEvent hands out for a server event
Decoded(e) == [Type |-> e.Type, ID |-> e.ID,
               Data |-> IF e.Data = EmptyString THEN EmptyString ELSE e.Data \o <<NL>>]

\* -------------------------------------------------------------------- state
VARIABLES
    events,        \* the stream held by the server
    maxRetries,    \* Streamer.maxRetries
    backoffBase,   \* ConstantBackoff.Base of Streamer.backoff (Jitter = 0)
    attempt,       \* Streamer.attempt
    lastEventID,   \* Streamer.lastEventID
    decoder,       \* Streamer.decoder # nil
    currentStream, \* Streamer.currentStream: "nil", "open" or "closed"
    body,          \* bytes the decoder has not read yet
    bodyEnd,       \* how the current body ends: ErrEOF or ErrReset
    pc,            \* position of the NextEvent call in progress
    cancelled,     \* the caller's context is done
    cancelPc,      \* pc at the moment the context was cancelled
    calls,         \* NextEvent calls started
    result,        \* error of the last finished NextEvent call, "none" before
    returned,      \* events NextEvent has returned, in order
    nreq,          \* HTTP requests issued
    lastReq,       \* headers of the most recent request
    lastStatus,    \* status of the most recent response, 0 before
    callReqs,      \* requests answered with 200 during the call in progress
    failed,        \* some NextEvent call has returned an error
    delay,         \* delay of the reconnect timer in connect
    cancelCall,    \* number of the call in progress when the context was cancelled
    unclosed,      \* response bodies received, not closed, not held as currentStream
    \* textStreamer
    tDone,         \* textStreamer.done
    tCurrent,      \* textStreamer.currentEvent: [set, rem], set = FALSE is nil
    tOut,          \* bytes the Read calls have delivered, in order
    tPc,           \* position of the Read call in progress
    tBuf,          \* len(buf) of the Read call in progress
    tErr,          \* error of the last finished Read call, "none" before
    tN,            \* n of the last finished Read call
    \* fileStreamer and the Files it returns
    fDone,         \* fileStreamer.done
    fPc,           \* position of the NextFile call in progress
    fFiles,        \* the Files NextFile has returned, in order
    fRet,          \* what the last finished NextFile call returned: [file, err]
    gets,          \* GET requests issued for file URLs: [url, c]
    bodies,        \* Body calls made
    bRet,          \* what the last Body call returned: [file, err]
    \* Client.do
    method,        \* request.Method
    outGiven,      \* out # nil
    attempts,      \* attempts
    apiError,      \* status of apiError, 0 = nil
    doPc,          \* position of the do call: "idle", "send", "sleep", "returned"
    sent,          \* requests handed to r.c.Do
    responses,     \* status codes of the responses received, in order
    doErr,         \* what do returned: [kind, status]
    out,           \* the body unmarshalled into out, "unset" before
    wait,          \* delay of the time.Sleep in progress
    now,           \* the clock, in seconds
    retryAfter,    \* Retry-After header of the most recent response, "" before
    \* a Decoder on its own
    dIn,           \* bytes the Decoder's reader has not handed out yet
    dEof,          \* the error the reader ends with
    dEvent,        \* the Event of the last Next call
    dErr,          \* the error of the last Next call, "none" before
    dCalls,        \* Next calls made
    \* ExponentialBackoff
    expRetries,    \* retries of the last NextDelay call, -1 before
    expDelay,      \* the Duration it returned, as [hi, lo]
    \* Client.Wait
    wStatus,       \* prediction.Status
    wFirst,        \* prediction.Status when Wait was called
    wInterval,     \* options.interval, in seconds
    wPc,           \* position of the Wait call: "idle", "select", "returned"
    wGets,         \* GetPrediction calls made
    wTicks,        \* ticks of the ticker received
    wErr,          \* what Wait returned, "none" before
    \* Client.streamPrediction, the version with channels
    chStream,      \* the lines the server writes on a connection
    chEnd,         \* the error that ends the connection: io.EOF or a reset
    chPos,         \* lines of chStream the reader has read
    ctxDone,       \* the caller's ctx is cancelled
    gctxDone,      \* the ctx of errgroup.WithContext is cancelled
    spPc,          \* streamPrediction: "call", "running" or "returned"
    spCtx,         \* the ctx it was called with: "caller" or "group"
    doCalls,       \* calls of r.c.Do
    readerPc,      \* the g.Go goroutine: "none", "select", "read", "send", "exit"
    line,          \* the line it offers on lineChan
    readerErr,     \* what it returned
    lineChanClosed,
    buf,           \* bytes.Buffer of the decoding goroutine, as lines
    decoderPc,     \* "none", "select", "decode", "deliver", "closeDone", "exit"
    event,         \* the event it is about to send
    doneClosed,    \* close(done) has run
    sseChan,       \* events sent on sseChan, in order
    sseChanClosed,
    errChan,       \* errors sent on errChan, in order
    errChanClosed,
    waiterPc,      \* "none", "wait", "checkDone", "sendError", "close", "closeErr", "exit"
    panicked,      \* the channel a send on a closed channel hit, "" if none
    \* Paginate
    pgPc,          \* the goroutine: "send", "fetch", "sendErr", "exit"
    pgResults,     \* page.Results it is about to send
    pgNext,        \* nextURL # nil
    pgFetches,     \* client.fetch calls made
    pgErr,         \* the error of the failed fetch, Nil if none
    resultsChanClosed,
    pgErrChanClosed,
    consumerPc,    \* the caller: "range", "select", "exit"
    predictions,   \* the results it received, page by page
    consumerErr    \* what it received from errChan, "none" before

vars == <<events, maxRetries, backoffBase, attempt, lastEventID, decoder,
          currentStream, body, bodyEnd, pc, cancelled, cancelPc, calls, result,
          returned, nreq, lastReq, lastStatus, callReqs, failed, delay,
          cancelCall, unclosed, tDone, tCurrent, tOut, tPc, tBuf, tErr, tN,
          fDone, fPc, fFiles, fRet, gets, bodies, bRet,
          method, outGiven, attempts, apiError, doPc, sent, responses, doErr,
          out, wait, now, retryAfter, dIn, dEof, dEvent, dErr, dCalls,
          expRetries, expDelay, wStatus, wFirst, wInterval, wPc, wGets, wTicks,
          wErr, chStream, chEnd, chPos, ctxDone, gctxDone, spPc, spCtx, doCalls,
          readerPc, line, readerErr, lineChanClosed, buf, decoderPc, event,
          doneClosed, sseChan, sseChanClosed, errChan, errChanClosed, waiterPc,
          panicked, pgPc, pgResults, pgNext, pgFetches, pgErr, resultsChanClosed,
          pgErrChanClosed, consumerPc, predictions, consumerErr>>

textVars == <<tDone, tCurrent, tOut, tPc, tBuf, tErr, tN>>

\* the state of the layers above and beside the Streamer
fileVars == <<fDone, fPc, fFiles, fRet, gets, bodies, bRet>>

reqVars == <<method, outGiven, attempts, apiError, doPc, sent, responses, doErr,
             out, wait, now, retryAfter>>

decVars == <<dIn, dEof, dEvent, dErr, dCalls>>

expVars == <<expRetries, expDelay>>

waitVars == <<wStatus, wFirst, wInterval, wPc, wGets, wTicks, wErr>>

chanVars == <<chStream, chEnd, chPos, ctxDone, gctxDone, spPc, spCtx, doCalls,
              readerPc, line, readerErr, lineChanClosed, buf, decoderPc, event,
              doneClosed, sseChan, sseChanClosed, errChan, errChanClosed,
              waiterPc, panicked>>

pageVars == <<pgPc, pgResults, pgNext, pgFetches, pgErr, resultsChanClosed,
              pgErrChanClosed, consumerPc, predictions, consumerErr>>

others == <<textVars, fileVars, reqVars, decVars, expVars, waitVars, chanVars,
            pageVars>>

config == <<events, maxRetries, backoffBase>>

NoHeaders == [Accept |-> "", CacheControl |-> "", Connection |-> "", LastEventID |-> EmptyString]

NilReader == [set |-> FALSE, rem |-> EmptyString]

\* StreamPredictionText: &textStreamer{s: s, ctx: ctx}
TextInit ==
    /\ tDone = FALSE
    /\ tCurrent = NilReader
    /\ tOut = EmptyString
    /\ tPc = "idle"
    /\ tBuf = 0
    /\ tErr = [kind |-> "none", data |-> EmptyString]
    /\ tN = 0

NilFile == [kind |-> "nil", c |-> "", url |-> EmptyString]

\* StreamPredictionFiles: &fileStreamer{s: s, c: r.c}
FileInit ==
    /\ fDone = FALSE
    /\ fPc = "idle"
    /\ fFiles = <<>>
    /\ fRet = [file |-> NilFile, err |-> [kind |-> "none", data |-> EmptyString]]
    /\ gets = <<>>
    /\ bodies = 0
    /\ bRet = [file |-> 0, err |-> "none"]

\* NewDecoder(r) on a reader that holds the given bytes
DecInit(inputs) ==
    /\ dIn \in inputs
    /\ dEof = ErrEOF
    /\ dEvent = buildEvent(EmptyString, EmptyString, EmptyString)
    /\ dErr = "none"
    /\ dCalls = 0

\* a backoff that has not been asked yet
ExpInit ==
    /\ expRetries = -1
    /\ expDelay = [hi |-> 0, lo |-> 0]

\* a prediction in one of the given states, before Wait is called on it
WaitInit(statuses, intervals) ==
    /\ wStatus \in statuses
    /\ wFirst = wStatus
    /\ wInterval \in intervals
    /\ wPc = "idle"
    /\ wGets = 0
    /\ wTicks = 0
    /\ wErr = "none"

NoLine == [field |-> "", value |-> <<>>]

NoEvent == [Type |-> <<>>, ID |-> <<>>, Data |-> <<>>]

\* StreamPrediction: sseChan and errChan are made, streamPrediction is called
\* with the caller's ctx
ChanInit(streams, ends) ==
    /\ chStream \in streams
    /\ chEnd \in ends
    /\ chPos = 0
    /\ ctxDone = FALSE
    /\ gctxDone = FALSE
    /\ spPc = "call"
    /\ spCtx = "caller"
    /\ doCalls = 0
    /\ readerPc = "none"
    /\ line = NoLine
    /\ readerErr = Nil
    /\ lineChanClosed = FALSE
    /\ buf = <<>>
    /\ decoderPc = "none"
    /\ event = NoEvent
    /\ doneClosed = FALSE
    /\ sseChan = <<>>
    /\ sseChanClosed = FALSE
    /\ errChan = <<>>
    /\ errChanClosed = FALSE
    /\ waiterPc = "none"
    /\ panicked = ""

\* Paginate: the goroutine starts by sending initialPage.Results
PageInit(results, nexts) ==
    /\ pgPc = "send"
    /\ pgResults \in results
    /\ pgNext \in nexts
    /\ pgFetches = 0
    /\ pgErr = Nil
    /\ resultsChanClosed = FALSE
    /\ pgErrChanClosed = FALSE
    /\ consumerPc = "range"
    /\ predictions = <<>>
    /\ consumerErr = "none"

NoResult == [kind |-> "none", status |-> 0]

\* a request built by fetch, before do is called on it
ReqInit(methods, outs, clocks) ==
    /\ method \in methods
    /\ outGiven \in outs
    /\ attempts = 0
    /\ apiError = 0
    /\ doPc = "idle"
    /\ sent = 0
    /\ responses = <<>>
    /\ doErr = NoResult
    /\ out = "unset"
    /\ wait = 0
    /\ now \in clocks
    /\ retryAfter = ""

\* NewStreamer, against a server that holds one of the given streams
StreamerInit(streams, retries, bases) ==
    /\ events \in streams
    /\ maxRetries \in retries
    /\ backoffBase \in bases
    /\ attempt = 0
    /\ lastEventID = EmptyString
    /\ decoder = FALSE
    /\ currentStream = "nil"
    /\ body = <<>>
    /\ bodyEnd = ErrEOF
    /\ pc = "idle"
    /\ cancelled = FALSE
    /\ cancelPc = "none"
    /\ calls = 0
    /\ result = "none"
    /\ returned = <<>>
    /\ nreq = 0
    /\ lastReq = NoHeaders
    /\ lastStatus = 0
    /\ callReqs = 0
    /\ failed = FALSE
    /\ delay = 0
    /\ cancelCall = 0
    /\ unclosed = 0

Init ==
    /\ StreamerInit(Streams, 0..MaxRetriesBound, {0, 1})
    /\ TextInit
    /\ FileInit
    /\ ReqInit({"GET"}, {TRUE}, {0})
    /\ DecInit({<<>>})
    /\ ExpInit
    /\ WaitInit({"starting"}, {1})
    /\ ChanInit({<<>>}, {ErrEOF})
    /\ PageInit({<<>>}, {FALSE})

\* ------------------------------------------------------------------ Streamer
\* variants of the guard: 0 read as "no limit", and a limit off by one
exceededRetriesPositiveOnly(a, m) == m > 0 /\ a > m

exceededRetriesOffByOne(a, m) == a > m + 1

\* the guard at the top of the loop of connect
exceededRetries(a, m) == a > m

\* Backoff.NextDelay of a ConstantBackoff without jitter
NextDelay(retries) == backoffBase

\* variant: the request never names the last event
connectHeadersNoResume(id) ==
    [Accept |-> AcceptEventStream, CacheControl |-> "", Connection |-> "",
     LastEventID |-> EmptyString]

\* the headers connect sets on its request; "" is an absent header
connectHeaders(id) ==
    [Accept |-> AcceptEventStream, CacheControl |-> "", Connection |-> "",
     LastEventID |-> IF id # EmptyString THEN id ELSE EmptyString]

\* variant: only a clean io.EOF leads to a reconnect
isEndOfStreamCleanOnly(err) == err = ErrEOF

\* errors.Is(err, io.EOF) || errors.Is(err, io.ErrUnexpectedEOF)
isEndOfStream(err) == err \in {ErrEOF, ErrUnexpectedEOF}

\* variant: every response is taken as a stream
statusAcceptedAny(code) == TRUE

\* resp.StatusCode != http.StatusOK is fatal
statusAccepted(code) == code = StatusOK

\* s.lastEventID = e.ID
nextLastEventID(old, e) == e.ID

\* a return of the NextEvent call in progress
Return(err) ==
    /\ pc' = "idle"
    /\ result' = err
    /\ failed' = (failed \/ err # Nil)

\* NextEvent is entered: connect first when there is no decoder yet
StartNextEvent ==
    /\ pc = "idle"
    /\ calls < MaxCalls
    /\ calls' = calls + 1
    /\ callReqs' = 0
    /\ result' = "pending"
    /\ pc' = IF ~decoder THEN "connect" ELSE "read"
    /\ UNCHANGED <<config, attempt, lastEventID, decoder, currentStream, body,
                   bodyEnd, cancelled, cancelPc, returned, nreq, lastReq,
                   lastStatus, failed, delay, cancelCall, unclosed>>

\* NextEvent called by the user of the Streamer
NextEvent == StartNextEvent /\ UNCHANGED others

\* connect, top of the loop: give up, or count the attempt and arm the timer
ConnectAttempt ==
    /\ pc = "connect"
    /\ IF exceededRetries(attempt, maxRetries)
       THEN /\ Return(ErrMaximumRetries)
            /\ UNCHANGED <<attempt, delay>>
       ELSE /\ delay' = IF attempt > 0 THEN NextDelay(attempt - 1) ELSE 0
            /\ attempt' = attempt + 1
            /\ pc' = "wait"
            /\ UNCHANGED <<result, failed>>
    /\ UNCHANGED <<config, lastEventID, decoder, currentStream, body, bodyEnd,
                   cancelled, cancelPc, calls, returned, nreq, lastReq,
                   lastStatus, callReqs, cancelCall, unclosed, others>>

\* connect, the select on ctx.Done() and the timer, then the request is sent.
\* With a done context and a timer of zero delay both cases can be ready.
ConnectWait ==
    /\ pc = "wait"
    /\ \/ /\ cancelled
          /\ Return(ErrCtx)
          /\ UNCHANGED <<nreq, lastReq>>
       \/ /\ (~cancelled \/ delay = 0)
          /\ nreq' = nreq + 1
          /\ lastReq' = connectHeaders(lastEventID)
          /\ pc' = "inflight"
          /\ UNCHANGED <<result, failed>>
    /\ UNCHANGED <<config, attempt, lastEventID, decoder, currentStream, body,
                   bodyEnd, cancelled, cancelPc, calls, returned, lastStatus,
                   callReqs, delay, cancelCall, unclosed, others>>

\* connect, s.c.Do fails at transport level: try again
ConnectTransportError ==
    /\ pc = "inflight"
    /\ pc' = "connect"
    /\ lastStatus' = 0
    /\ UNCHANGED <<config, attempt, lastEventID, decoder, currentStream, body,
                   bodyEnd, cancelled, cancelPc, calls, result, returned, nreq,
                   lastReq, callReqs, failed, delay, cancelCall, unclosed, others>>

\* connect, s.c.Do returns a response; the body of a response that is not
\* 200 is dropped without Close, the stream in use is closed when replaced
ConnectResponse ==
    /\ pc = "inflight"
    /\ ~cancelled
    /\ \E code \in {StatusOK} \cup BadStatuses :
         /\ lastStatus' = code
         /\ IF ~statusAccepted(code)
            THEN /\ Return(ErrInvalidStatus)
                 /\ unclosed' = unclosed + 1
                 /\ UNCHANGED <<decoder, currentStream, body, bodyEnd, callReqs>>
            ELSE \E end \in {ErrEOF, ErrReset} :
                   LET from == ResumeFrom(events, lastReq.LastEventID) + 1
                   IN  \E cut \in CutPoints(events, from) :
                         /\ body' = SubSeq(WireFrom(events, from), 1, cut)
                         /\ bodyEnd' = end
                         /\ currentStream' = "open"
                         /\ decoder' = TRUE
                         /\ callReqs' = callReqs + 1
                         /\ pc' = "read"
                         /\ UNCHANGED <<result, failed, unclosed>>
    /\ UNCHANGED <<config, attempt, lastEventID, cancelled, cancelPc, calls,
                   returned, nreq, lastReq, delay, cancelCall, others>>

\* what the decoder's reader can still obtain, and the error after it
ReaderViews ==
    IF currentStream = "closed"
    THEN {<<body, ErrClosedBody>>, <<EmptyString, ErrClosedBody>>}
    ELSE IF cancelled
    THEN {<<body, bodyEnd>>, <<body, ErrCtx>>, <<EmptyString, ErrCtx>>}
    ELSE {<<body, bodyEnd>>}

\* variant: the ID of a block cut short by the end of the connection is kept
ReadEventSpeculative ==
    /\ pc = "read"
    /\ \E view \in ReaderViews :
         LET d == DecoderNext(view[1], view[2])
         IN  /\ body' = d.r
             /\ bodyEnd' = IF d.err = Nil THEN bodyEnd
                           ELSE IF d.err = ErrUnexpectedEOF THEN ErrEOF ELSE d.err
             /\ IF d.err = Nil
                THEN /\ lastEventID' = nextLastEventID(lastEventID, d.e)
                     /\ returned' = Append(returned, d.e)
                     /\ Return(Nil)
                ELSE IF isEndOfStream(d.err)
                THEN /\ pc' = "connect"
                     /\ lastEventID' = IF d.e.ID # EmptyString THEN d.e.ID ELSE lastEventID
                     /\ UNCHANGED <<returned, result, failed>>
                ELSE /\ Return(d.err)
                     /\ UNCHANGED <<lastEventID, returned>>
    /\ UNCHANGED <<config, attempt, decoder, currentStream, cancelled, cancelPc,
                   calls, nreq, lastReq, lastStatus, callReqs, delay, cancelCall,
                   unclosed, others>>

\* NextEvent, one turn of its loop: decoder.Next()
ReadEvent ==
    /\ pc = "read"
    /\ \E view \in ReaderViews :
         LET d == DecoderNext(view[1], view[2])
         IN  /\ body' = d.r
             /\ bodyEnd' = IF d.err = Nil THEN bodyEnd
                           ELSE IF d.err = ErrUnexpectedEOF THEN ErrEOF ELSE d.err
             /\ IF d.err = Nil
                THEN /\ lastEventID' = nextLastEventID(lastEventID, d.e)
                     /\ returned' = Append(returned, d.e)
                     /\ Return(Nil)
                ELSE IF isEndOfStream(d.err)
                THEN /\ pc' = "connect"
                     /\ UNCHANGED <<lastEventID, returned, result, failed>>
                ELSE /\ Return(d.err)
                     /\ UNCHANGED <<lastEventID, returned>>
    /\ UNCHANGED <<config, attempt, decoder, currentStream, cancelled, cancelPc,
                   calls, nreq, lastReq, lastStatus, callReqs, delay, cancelCall,
                   unclosed, others>>

\* Streamer.Close
Close ==
    /\ pc = "idle"
    /\ currentStream' = IF currentStream # "nil" THEN "closed" ELSE currentStream
    /\ UNCHANGED <<config, attempt, lastEventID, decoder, body, bodyEnd, pc,
                   cancelled, cancelPc, calls, result, returned, nreq, lastReq,
                   lastStatus, callReqs, failed, delay, cancelCall, unclosed,
                   others>>

\* the caller's context is cancelled or its deadline passes
Cancel ==
    /\ ~cancelled
    /\ cancelled' = TRUE
    /\ cancelPc' = pc
    /\ cancelCall' = calls
    /\ UNCHANGED <<config, attempt, lastEventID, decoder, currentStream, body,
                   bodyEnd, pc, calls, result, returned, nreq, lastReq,
                   lastStatus, callReqs, failed, delay, unclosed, others>>

Next ==
    \/ NextEvent
    \/ ConnectAttempt
    \/ ConnectWait
    \/ ConnectTransportError
    \/ ConnectResponse
    \/ ReadEvent
    \/ Close
    \/ Cancel

Spec == Init /\ [][Next]_vars

\* -------------------------------------------------------------- textStreamer
NoError == [kind |-> "none", data |-> EmptyString]

Min(a, b) == IF a <= b THEN a ELSE b

\* variant: what does not fit the buffer is dropped
ReaderReadLossy(rem, n) ==
    [n |-> Min(n, Len(rem)), out |-> SubSeq(rem, 1, Min(n, Len(rem))), rem |-> EmptyString]

\* strings.Reader.Read into a buffer of n bytes, for a reader with bytes left
ReaderRead(rem, n) ==
    [n |-> Min(n, Len(rem)), out |-> SubSeq(rem, 1, Min(n, Len(rem))),
     rem |-> SubSeq(rem, Min(n, Len(rem)) + 1, Len(rem))]

\* variant: the payload is the event's Data as it is
textPayloadRaw(data) == data

\* strings.TrimSuffix(e.Data, "\n")
textPayload(data) == TrimSuffix(data, <<NL>>)

\* a return of the Read call in progress
TextReturn(n, kind, data) ==
    /\ tPc' = "idle"
    /\ tN' = n
    /\ tErr' = [kind |-> kind, data |-> data]

\* Read, from t.currentEvent.Read(buf) on: bytes are returned, or the reader
\* is used up and the loop goes for the next event
TextDrain(cur, n) ==
    IF cur.rem # EmptyString
    THEN LET rd == ReaderRead(cur.rem, n)
         IN  /\ tOut' = tOut \o rd.out
             /\ tCurrent' = [set |-> TRUE, rem |-> rd.rem]
             /\ TextReturn(rd.n, Nil, EmptyString)
    ELSE /\ tCurrent' = NilReader
         /\ tPc' = "fetch"
         /\ UNCHANGED <<tOut, tErr, tN>>

\* Read is called with a buffer of n bytes
TextRead ==
    /\ tPc = "idle"
    /\ pc = "idle"
    /\ \E n \in 1..MaxBuf :
         /\ tBuf' = n
         /\ IF tDone
            THEN /\ TextReturn(0, ErrEOF, EmptyString)
                 /\ UNCHANGED <<tCurrent, tOut>>
            ELSE IF tCurrent.set
            THEN TextDrain(tCurrent, n)
            ELSE /\ tPc' = "fetch"
                 /\ UNCHANGED <<tCurrent, tOut, tErr, tN>>
    /\ UNCHANGED <<tDone>>
    /\ UNCHANGED <<config, attempt, lastEventID, decoder, currentStream, body,
                   bodyEnd, pc, cancelled, cancelPc, calls, result, returned,
                   nreq, lastReq, lastStatus, callReqs, failed, delay, cancelCall,
                   unclosed, fileVars, reqVars, decVars, expVars,
                   waitVars, chanVars, pageVars>>

\* Read calls t.s.NextEvent(t.ctx)
TextFetch ==
    /\ tPc = "fetch"
    /\ StartNextEvent
    /\ tPc' = "await"
    /\ UNCHANGED <<tDone, tCurrent, tOut, tBuf, tErr, tN, fileVars, reqVars, decVars,
                 expVars, waitVars, chanVars, pageVars>>

\* Read, NextEvent has returned: the switch on e.Type
TextOnEvent ==
    /\ tPc = "await"
    /\ pc = "idle"
    /\ IF result # Nil
       THEN /\ TextReturn(0, result, EmptyString)
            /\ UNCHANGED <<tDone, tCurrent, tOut>>
       ELSE LET e == returned[Len(returned)]
            IN  IF e.Type = EmptyString
                THEN /\ tPc' = "fetch"
                     /\ UNCHANGED <<tDone, tCurrent, tOut, tErr, tN>>
                ELSE IF e.Type = TypeDone
                THEN /\ tDone' = TRUE
                     /\ TextReturn(0, ErrEOF, EmptyString)
                     /\ UNCHANGED <<tCurrent, tOut>>
                ELSE IF e.Type = TypeError
                THEN /\ TextReturn(0, ErrErrorEvent, e.Data)
                     /\ UNCHANGED <<tDone, tCurrent, tOut>>
                ELSE IF e.Type = TypeOutput
                THEN /\ TextDrain([set |-> TRUE, rem |-> textPayload(e.Data)], tBuf)
                     /\ UNCHANGED <<tDone>>
                ELSE /\ TextReturn(0, ErrUnexpectedType, e.Type)
                     /\ UNCHANGED <<tDone, tCurrent, tOut>>
    /\ UNCHANGED <<tBuf>>
    /\ UNCHANGED <<config, attempt, lastEventID, decoder, currentStream, body,
                   bodyEnd, pc, cancelled, cancelPc, calls, result, returned,
                   nreq, lastReq, lastStatus, callReqs, failed, delay, cancelCall,
                   unclosed, fileVars, reqVars, decVars, expVars,
                   waitVars, chanVars, pageVars>>

\* textStreamer.Close, between Read calls
TextClose ==
    /\ tPc = "idle"
    /\ Close

\* StreamPredictionText with the client's retry policy
InitText ==
    /\ StreamerInit(TextStreams, {ProjRetries}, {0})
    /\ TextInit
    /\ FileInit
    /\ ReqInit({"GET"}, {TRUE}, {0})
    /\ DecInit({<<>>})
    /\ ExpInit
    /\ WaitInit({"starting"}, {1})
    /\ ChanInit({<<>>}, {ErrEOF})
    /\ PageInit({<<>>}, {FALSE})

NextText ==
    \/ TextRead
    \/ TextFetch
    \/ TextOnEvent
    \/ TextClose
    \/ ConnectAttempt
    \/ ConnectWait
    \/ ConnectTransportError
    \/ ConnectResponse
    \/ ReadEvent
    \/ Cancel

SpecText == InitText /\ [][NextText]_vars

\* -------------------------------------------------------------- fileStreamer
\* the client of the Streamer and the client of the fileStreamer
streamClient == "r.c"

\* variant: files are fetched with the default client
fileClientDefault == "http.DefaultClient"

fileClient == "r.c"

dataURL(url) == [kind |-> "dataURL", c |-> "", url |-> url]

httpURL(c, url) == [kind |-> "httpURL", c |-> c, url |-> url]

\* a return of the NextFile call in progress
FileReturn(file, kind, data) ==
    /\ fPc' = "idle"
    /\ fRet' = [file |-> file, err |-> [kind |-> kind, data |-> data]]
    /\ fFiles' = IF file = NilFile THEN fFiles ELSE Append(fFiles, file)

\* NextFile is called
NextFile ==
    /\ fPc = "idle"
    /\ pc = "idle"
    /\ IF fDone
       THEN FileReturn(NilFile, ErrEOF, EmptyString)
       ELSE /\ fPc' = "fetch"
            /\ UNCHANGED <<fFiles, fRet>>
    /\ UNCHANGED <<fDone, gets, bodies, bRet>>
    /\ UNCHANGED <<config, attempt, lastEventID, decoder, currentStream, body,
                   bodyEnd, pc, cancelled, cancelPc, calls, result, returned,
                   nreq, lastReq, lastStatus, callReqs, failed, delay, cancelCall,
                   unclosed, textVars, reqVars, decVars, expVars,
                   waitVars, chanVars, pageVars>>

\* NextFile calls f.s.NextEvent(ctx)
NextFileFetch ==
    /\ fPc = "fetch"
    /\ StartNextEvent
    /\ fPc' = "await"
    /\ UNCHANGED <<fDone, fFiles, fRet, gets, bodies, bRet, textVars, reqVars, decVars,
                 expVars, waitVars, chanVars, pageVars>>

\* NextFile, NextEvent has returned: the switch on e.Type, then on the URL
NextFileOnEvent ==
    /\ fPc = "await"
    /\ pc = "idle"
    /\ IF result # Nil
       THEN /\ FileReturn(NilFile, result, EmptyString)
            /\ UNCHANGED <<fDone>>
       ELSE LET e == returned[Len(returned)]
                url == TrimSuffix(e.Data, <<NL>>)
            IN  IF e.Type = EmptyString
                THEN /\ fPc' = "fetch"
                     /\ UNCHANGED <<fDone, fFiles, fRet>>
                ELSE IF e.Type = TypeDone
                THEN /\ fDone' = TRUE
                     /\ FileReturn(NilFile, ErrEOF, EmptyString)
                ELSE IF e.Type = TypeError
                THEN /\ FileReturn(NilFile, ErrErrorEvent, e.Data)
                     /\ UNCHANGED <<fDone>>
                ELSE IF e.Type # TypeOutput
                THEN /\ FileReturn(NilFile, ErrUnexpectedType, e.Type)
                     /\ UNCHANGED <<fDone>>
                ELSE /\ IF HasPrefix(url, dataScheme)
                        THEN FileReturn(dataURL(url), Nil, EmptyString)
                        ELSE IF HasPrefix(url, httpScheme)
                        THEN FileReturn(httpURL(fileClient, url), Nil, EmptyString)
                        ELSE FileReturn(NilFile, ErrParseURL, url)
                     /\ UNCHANGED <<fDone>>
    /\ UNCHANGED <<gets, bodies, bRet>>
    /\ UNCHANGED <<config, attempt, lastEventID, decoder, currentStream, body,
                   bodyEnd, pc, cancelled, cancelPc, calls, result, returned,
                   nreq, lastReq, lastStatus, callReqs, failed, delay, cancelCall,
                   unclosed, textVars, reqVars, decVars, expVars,
                   waitVars, chanVars, pageVars>>

\* dataurl.DecodeString: the URL needs the comma that starts the payload
dataURLValid(url) == \E i \in 1..Len(url) : url[i] = ","

\* Body is called on a File that NextFile has returned: a dataURL decodes
\* its own URL, an httpURL sends a GET through its client
FileBody ==
    /\ fPc = "idle"
    /\ pc = "idle"
    /\ bodies < MaxBodies
    /\ bodies' = bodies + 1
    /\ \E i \in 1..Len(fFiles) :
         LET f == fFiles[i]
         IN  IF f.kind = "dataURL"
             THEN /\ bRet' = [file |-> i, err |-> IF dataURLValid(f.url) THEN Nil ELSE ErrDataURL]
                  /\ UNCHANGED gets
             ELSE /\ gets' = Append(gets, [url |-> f.url, c |-> f.c])
                  /\ \E err \in {Nil, ErrDo} : bRet' = [file |-> i, err |-> err]
    /\ UNCHANGED <<fDone, fPc, fFiles, fRet>>
    /\ UNCHANGED <<config, attempt, lastEventID, decoder, currentStream, body,
                   bodyEnd, pc, cancelled, cancelPc, calls, result, returned,
                   nreq, lastReq, lastStatus, callReqs, failed, delay, cancelCall,
                   unclosed, textVars, reqVars, decVars, expVars,
                   waitVars, chanVars, pageVars>>

\* fileStreamer.Close, between NextFile calls
FileClose ==
    /\ fPc = "idle"
    /\ Close

\* StreamPredictionFiles with the client's retry policy
InitFile ==
    /\ StreamerInit(FileStreams, {ProjRetries}, {0})
    /\ TextInit
    /\ FileInit
    /\ ReqInit({"GET"}, {TRUE}, {0})
    /\ DecInit({<<>>})
    /\ ExpInit
    /\ WaitInit({"starting"}, {1})
    /\ ChanInit({<<>>}, {ErrEOF})
    /\ PageInit({<<>>}, {FALSE})

NextFiles ==
    \/ NextFile
    \/ NextFileFetch
    \/ NextFileOnEvent
    \/ FileBody
    \/ FileClose
    \/ ConnectAttempt
    \/ ConnectWait
    \/ ConnectTransportError
    \/ ConnectResponse
    \/ ReadEvent
    \/ Cancel

SpecFile == InitFile /\ [][NextFiles]_vars

\* ----------------------------------------------------------------- Client.do
GET == "GET"
POST == "POST"

StatusTooManyRequests == 429

\* status codes the server answers with
ReqStatuses == {200, 304, 404, 429, 500}

\* Retry-After values the server sends: none, seconds, something that is
\* neither seconds nor a date, and a date
RetryAfterDate == "Thu, 01 Jan 1970 00:00:03 UTC"
RetryAfterValues == {"", "0", "2", "x", RetryAfterDate}

\* response bodies: one that unmarshals into out and one that does not
Bodies == {"{}", "<html>"}

\* time.Parse(time.RFC1123, s) on the values above, as seconds of the clock
parseRFC1123(s) ==
    IF s = RetryAfterDate THEN [ok |-> TRUE, t |-> 3] ELSE [ok |-> FALSE, t |-> 0]

\* strconv.Atoi(s) on the values above
Atoi(s) ==
    CASE s = "0" -> [ok |-> TRUE, n |-> 0]
      [] s = "2" -> [ok |-> TRUE, n |-> 2]
      [] OTHER -> [ok |-> FALSE, n |-> 0]

\* json.Unmarshal(responseBytes, &out) succeeds
jsonValid(b) == b = "{}"

\* variants of the policy: 5xx retried for every method, and 429 only
shouldRetryAnyMethod(status, m) ==
    status = StatusTooManyRequests \/ (status >= 500 /\ status < 600)

shouldRetryOnly429(status, m) == status = StatusTooManyRequests

\* Client.shouldRetry
shouldRetry(status, m) ==
    IF m = GET
    THEN status = StatusTooManyRequests \/ (status >= 500 /\ status < 600)
    ELSE status = StatusTooManyRequests

\* the status makes an API error
isErrorStatus(status) == status < 200 \/ status >= 400

\* variant: the header is not looked at
retryDelayBackoffOnly(a, header) == NextDelay(a)

\* the delay before the next attempt
retryDelay(a, header) ==
    IF header = "" THEN NextDelay(a)
    ELSE IF parseRFC1123(header).ok THEN parseRFC1123(header).t - now
    ELSE IF Atoi(header).ok THEN Atoi(header).n
    ELSE NextDelay(a)

\* a return of do
DoReturn(kind, status) ==
    /\ doPc' = "returned"
    /\ doErr' = [kind |-> kind, status |-> status]

\* variant: the loop goes on while attempts <= maxRetries
DoNextAttemptOneMore(err) ==
    /\ attempts' = attempts + 1
    /\ IF attempts + 1 <= maxRetries
       THEN /\ doPc' = "send"
            /\ UNCHANGED doErr
       ELSE IF err # 0
       THEN DoReturn("APIError", err)
       ELSE DoReturn("request failed after attempts", 0)

\* attempts++, then the loop condition and what follows the loop
DoNextAttempt(err) ==
    /\ attempts' = attempts + 1
    /\ IF attempts + 1 < maxRetries
       THEN /\ doPc' = "send"
            /\ UNCHANGED doErr
       ELSE IF err # 0
       THEN DoReturn("APIError", err)
       ELSE DoReturn("request failed after attempts", 0)

\* do is called on the request
do ==
    /\ doPc = "idle"
    /\ doPc' = "send"
    /\ UNCHANGED <<method, outGiven, attempts, apiError, sent, responses, doErr,
                   out, wait, now, retryAfter>>
    /\ UNCHANGED <<config, attempt, lastEventID, decoder, currentStream, body,
                   bodyEnd, pc, cancelled, cancelPc, calls, result, returned,
                   nreq, lastReq, lastStatus, callReqs, failed, delay, cancelCall,
                   unclosed, textVars, fileVars, decVars, expVars,
                   waitVars, chanVars, pageVars>>

\* r.c.Do or io.ReadAll fails
DoTransportError ==
    /\ doPc = "send"
    /\ sent' = sent + 1
    /\ \E kind \in {"failed to make request", "failed to read response body"} :
         DoReturn(kind, 0)
    /\ UNCHANGED <<method, outGiven, attempts, apiError, responses, out, wait, now,
                   retryAfter>>
    /\ UNCHANGED <<config, attempt, lastEventID, decoder, currentStream, body,
                   bodyEnd, pc, cancelled, cancelPc, calls, result, returned,
                   nreq, lastReq, lastStatus, callReqs, failed, delay, cancelCall,
                   unclosed, textVars, fileVars, decVars, expVars,
                   waitVars, chanVars, pageVars>>

\* r.c.Do returns a response and its body is read: the loop body, up to the
\* return, the sleep, or the next turn of the loop
DoResponse ==
    /\ doPc = "send"
    /\ sent' = sent + 1
    /\ ~cancelled
    /\ \E status \in ReqStatuses, header \in RetryAfterValues, b \in Bodies :
         /\ responses' = Append(responses, status)
         /\ retryAfter' = header
         /\ IF isErrorStatus(status)
            THEN /\ apiError' = status
                 /\ UNCHANGED out
                 /\ IF ~shouldRetry(status, method)
                    THEN /\ DoReturn("APIError", status)
                         /\ UNCHANGED <<attempts, wait>>
                    ELSE IF retryDelay(attempts, header) > 0
                    THEN /\ wait' = retryDelay(attempts, header)
                         /\ doPc' = "sleep"
                         /\ UNCHANGED <<attempts, doErr>>
                    ELSE /\ DoNextAttempt(status)
                         /\ UNCHANGED wait
            ELSE /\ UNCHANGED <<apiError, attempts, wait>>
                 /\ IF outGiven /\ ~jsonValid(b)
                    THEN /\ DoReturn("failed to unmarshal response", 0)
                         /\ UNCHANGED out
                    ELSE /\ DoReturn(Nil, 0)
                         /\ out' = IF outGiven THEN b ELSE out
    /\ UNCHANGED <<method, outGiven, now>>
    /\ UNCHANGED <<config, attempt, lastEventID, decoder, currentStream, body,
                   bodyEnd, pc, cancelled, cancelPc, calls, result, returned,
                   nreq, lastReq, lastStatus, callReqs, failed, delay, cancelCall,
                   unclosed, textVars, fileVars, decVars, expVars,
                   waitVars, chanVars, pageVars>>

\* time.Sleep(delay) is over
DoSleep ==
    /\ doPc = "sleep"
    /\ now' = now + wait
    /\ wait' = 0
    /\ DoNextAttempt(apiError)
    /\ UNCHANGED <<method, outGiven, apiError, sent, responses, out, retryAfter>>
    /\ UNCHANGED <<config, attempt, lastEventID, decoder, currentStream, body,
                   bodyEnd, pc, cancelled, cancelPc, calls, result, returned,
                   nreq, lastReq, lastStatus, callReqs, failed, delay, cancelCall,
                   unclosed, textVars, fileVars, decVars, expVars,
                   waitVars, chanVars, pageVars>>

\* the context of the call is cancelled, or its deadline passes
DoCancel ==
    /\ doPc \in {"send", "sleep"}
    /\ Cancel

\* one request of a client with some retry policy
InitRequest ==
    /\ StreamerInit({<<ServerEvent(1, "done", FALSE)>>}, 0..ReqRetries, {0, 1})
    /\ TextInit
    /\ FileInit
    /\ ReqInit({GET, POST}, BOOLEAN, {0, 5})
    /\ DecInit({<<>>})
    /\ ExpInit
    /\ WaitInit({"starting"}, {1})
    /\ ChanInit({<<>>}, {ErrEOF})
    /\ PageInit({<<>>}, {FALSE})

NextRequest ==
    \/ do
    \/ DoTransportError
    \/ DoResponse
    \/ DoSleep
    \/ DoCancel

SpecRequest == InitRequest /\ [][NextRequest]_vars

\* ------------------------------------------------------------------- Decoder
\* a byte that no UTF-8 text contains
BadByte == "0xFF"

\* utf8.Valid over the bytes of the model
utf8Valid(b) == \A i \in 1..Len(b) : b[i] # BadByte

\* lines a server may write: fields with and without the space, a value
\* with two spaces, a value with a colon, a comment, the blank line, a data
\* value that is not UTF-8, a field name without colon, a retry field
DecoderLines ==
    {<<"e", "v", "e", "n", "t", ":", "a", NL>>,
     <<"e", "v", "e", "n", "t", ":", " ", "b", NL>>,
     <<"d", "a", "t", "a", ":", "c", NL>>,
     <<"d", "a", "t", "a", ":", " ", " ", "d", NL>>,
     <<"i", "d", ":", "1", NL>>,
     <<"i", "d", ":", " ", "2", ":", "3", NL>>,
     <<":", " ", "h", "i", NL>>,
     <<NL>>,
     <<"d", "a", "t", "a", ":", BadByte, NL>>,
     <<"d", "a", "t", "a", NL>>,
     <<"r", "e", "t", "r", "y", ":", " ", "5", NL>>}

RECURSIVE Flatten(_)
Flatten(ls) == IF ls = <<>> THEN <<>> ELSE ls[1] \o Flatten(Tail(ls))

\* what the reader may hold: up to MaxLines lines, the last one complete or
\* cut before its newline
DecoderInputs ==
    LET whole == UNION { { Flatten(ls) : ls \in [1..n -> DecoderLines] } : n \in 0..MaxLines }
    IN  whole \cup { SubSeq(w, 1, Len(w) - 1) : w \in whole \ {<<>>} }

\* Decoder.Next is called
DecodeNext ==
    /\ dCalls < MaxDecodes
    /\ dCalls' = dCalls + 1
    /\ LET d == DecoderNext(dIn, dEof)
       IN  /\ dEvent' = d.e
           /\ dErr' = d.err
           /\ dIn' = d.r
    /\ UNCHANGED <<dEof, textVars, fileVars, reqVars, expVars, waitVars, chanVars, pageVars>>
    /\ UNCHANGED <<config, attempt, lastEventID, decoder, currentStream, body,
                   bodyEnd, pc, cancelled, cancelPc, calls, result, returned,
                   nreq, lastReq, lastStatus, callReqs, failed, delay, cancelCall,
                   unclosed>>

InitDecoder ==
    /\ StreamerInit({<<ServerEvent(1, "done", FALSE)>>}, {0}, {0})
    /\ TextInit
    /\ FileInit
    /\ ReqInit({GET}, {TRUE}, {0})
    /\ DecInit(DecoderInputs)
    /\ ExpInit
    /\ WaitInit({"starting"}, {1})
    /\ ChanInit({<<>>}, {ErrEOF})
    /\ PageInit({<<>>}, {FALSE})

NextDecoder == DecodeNext

SpecDecoder == InitDecoder /\ [][NextDecoder]_vars

\* -------------------------------------------------------- ExponentialBackoff
\* A time.Duration is an int64 of nanoseconds.  The model keeps it to the
\* millisecond, as hi * Chunk + lo milliseconds with 0 <= lo < Chunk, so
\* that the int64 range fits the integers of the checker.
Chunk == 32000

\* defaultBackoff
ExpBaseMs == 500
ExpMultiplier == 2
ExpJitterMs == 50

\* math.MaxInt64 and math.MinInt64 nanoseconds, in whole milliseconds
MaxDuration == [hi |-> 288230376, lo |-> 4854]
MinDuration == [hi |-> -288230377, lo |-> 27145]

DurLeq(a, b) == a.hi < b.hi \/ (a.hi = b.hi /\ a.lo <= b.lo)

\* float64(b.Base) * math.Pow(b.Multiplier, float64(retries)), which is
\* exact for these values: Chunk is ExpBaseMs * ExpMultiplier^6
expProduct(retries) ==
    IF retries < 6
    THEN [hi |-> 0, lo |-> ExpBaseMs * ExpMultiplier^retries]
    ELSE [hi |-> ExpMultiplier^(retries - 6), lo |-> 0]

\* time.Duration(f) for a float64: a value outside int64 converts to a
\* value the implementation picks (the smallest int64 on amd64, the
\* largest on arm64)
toDuration(f) == IF DurLeq(f, MaxDuration) THEN {f} ELSE {MinDuration, MaxDuration}

\* d + jitter in int64, jitter below Chunk: the sum wraps around past the
\* largest int64
addJitter(d, j) ==
    IF d = MaxDuration /\ j > 0
    THEN [hi |-> MinDuration.hi, lo |-> MinDuration.lo + j]
    ELSE [hi |-> d.hi + ((d.lo + j) \div Chunk), lo |-> (d.lo + j) % Chunk]

\* ExponentialBackoff.NextDelay(retries), for the jitter rand.Float64 gives
ExponentialNextDelay ==
    /\ \E retries \in 0..MaxBackoffRetries, j \in 0..(ExpJitterMs - 1) :
         /\ expRetries' = retries
         /\ \E base \in toDuration(expProduct(retries)) : expDelay' = addJitter(base, j)
    /\ UNCHANGED <<textVars, fileVars, reqVars, decVars, waitVars, chanVars, pageVars>>
    /\ UNCHANGED <<config, attempt, lastEventID, decoder, currentStream, body,
                   bodyEnd, pc, cancelled, cancelPc, calls, result, returned,
                   nreq, lastReq, lastStatus, callReqs, failed, delay, cancelCall,
                   unclosed>>

InitBackoff ==
    /\ StreamerInit({<<ServerEvent(1, "done", FALSE)>>}, {0}, {0})
    /\ TextInit
    /\ FileInit
    /\ ReqInit({GET}, {TRUE}, {0})
    /\ DecInit({<<>>})
    /\ ExpInit
    /\ WaitInit({"starting"}, {1})
    /\ ChanInit({<<>>}, {ErrEOF})
    /\ PageInit({<<>>}, {FALSE})

NextBackoff == ExponentialNextDelay

SpecBackoff == InitBackoff /\ [][NextBackoff]_vars

\* --------------------------------------------------------------- Client.Wait
Starting == "starting"
Processing == "processing"
Succeeded == "succeeded"
Failed == "failed"
Canceled == "canceled"

Statuses == {Starting, Processing, Succeeded, Failed, Canceled}

\* Status.Terminated
Terminated(st) == st = Succeeded \/ st = Failed \/ st = Canceled

ErrGetPrediction == "GetPrediction error"

\* a return of Wait: what the goroutine of WaitAsync sends on errChan
WaitReturn(err) ==
    /\ wPc' = "returned"
    /\ wErr' = err

\* Wait is called: WaitAsync starts its goroutine, which makes the ticker
\* and enters the select
Wait ==
    /\ wPc = "idle"
    /\ wPc' = "select"
    /\ UNCHANGED <<wStatus, wFirst, wInterval, wGets, wTicks, wErr>>
    /\ UNCHANGED <<textVars, fileVars, reqVars, decVars, expVars, chanVars, pageVars>>
    /\ UNCHANGED <<config, attempt, lastEventID, decoder, currentStream, body,
                   bodyEnd, pc, cancelled, cancelPc, calls, result, returned,
                   nreq, lastReq, lastStatus, callReqs, failed, delay, cancelCall,
                   unclosed>>

\* case <-ticker.C: an interval has passed; GetPrediction, then the test of
\* the new status
WaitTick ==
    /\ wPc = "select"
    /\ wTicks < MaxPolls
    /\ wTicks' = wTicks + 1
    /\ wGets' = wGets + 1
    /\ \/ /\ WaitReturn(IF cancelled THEN ErrCtx ELSE ErrGetPrediction)
          /\ UNCHANGED wStatus
       \/ /\ ~cancelled
          /\ \E st \in Statuses :
               /\ wStatus' = st
               /\ IF Terminated(st)
                  THEN WaitReturn(Nil)
                  ELSE UNCHANGED <<wPc, wErr>>
    /\ UNCHANGED <<wFirst, wInterval>>
    /\ UNCHANGED <<textVars, fileVars, reqVars, decVars, expVars, chanVars, pageVars>>
    /\ UNCHANGED <<config, attempt, lastEventID, decoder, currentStream, body,
                   bodyEnd, pc, cancelled, cancelPc, calls, result, returned,
                   nreq, lastReq, lastStatus, callReqs, failed, delay, cancelCall,
                   unclosed>>

\* case <-ctx.Done()
WaitCtxDone ==
    /\ wPc = "select"
    /\ cancelled
    /\ WaitReturn(ErrCtx)
    /\ UNCHANGED <<wStatus, wFirst, wInterval, wGets, wTicks>>
    /\ UNCHANGED <<textVars, fileVars, reqVars, decVars, expVars, chanVars, pageVars>>
    /\ UNCHANGED <<config, attempt, lastEventID, decoder, currentStream, body,
                   bodyEnd, pc, cancelled, cancelPc, calls, result, returned,
                   nreq, lastReq, lastStatus, callReqs, failed, delay, cancelCall,
                   unclosed>>

\* the context of the Wait call is cancelled
WaitCancel ==
    /\ wPc = "select"
    /\ Cancel

InitWait ==
    /\ StreamerInit({<<ServerEvent(1, "done", FALSE)>>}, {0}, {0})
    /\ TextInit
    /\ FileInit
    /\ ReqInit({GET}, {TRUE}, {0})
    /\ DecInit({<<>>})
    /\ ExpInit
    /\ WaitInit(Statuses, {1, 2})
    /\ ChanInit({<<>>}, {ErrEOF})
    /\ PageInit({<<>>}, {FALSE})

NextWait ==
    \/ Wait
    \/ WaitTick
    \/ WaitCtxDone
    \/ WaitCancel

SpecWait == InitWait /\ [][NextWait]_vars

\* -------------------------------------- Client.streamPrediction, with channels
\* what is not the state of streamPrediction
notChan == <<config, attempt, lastEventID, decoder, currentStream, body, bodyEnd,
             pc, cancelled, cancelPc, calls, result, returned, nreq, lastReq,
             lastStatus, callReqs, failed, delay, cancelCall, unclosed, textVars,
             fileVars, reqVars, decVars, expVars, waitVars, pageVars>>

\* capacity of sseChan and of errChan
ChanCap == 64

SSETypeDefault == <<"m", "e", "s", "s", "a", "g", "e">>
ErrInvalidUTF8Data == "invalid UTF-8 data"

\* the line "\n"
BlankLine == [field |-> "", value |-> <<>>]

FieldLine(f, v) == [field |-> f, value |-> v]

\* the blocks a server writes, as lines
ChanKinds == {"output", "done", "bad"}

ChanBlock(kind) ==
    CASE kind = "output" -> <<FieldLine("event", TypeOutput), FieldLine("data", <<"a">>),
                              BlankLine>>
      [] kind = "done" -> <<FieldLine("event", TypeDone), BlankLine>>
      [] kind = "bad" -> <<FieldLine("data", <<BadByte>>), BlankLine>>

RECURSIVE ChanLines(_)
ChanLines(kinds) ==
    IF kinds = <<>> THEN <<>> ELSE ChanBlock(Head(kinds)) \o ChanLines(Tail(kinds))

ChanStreams ==
    UNION { { ChanLines(k) : k \in [1..n -> ChanKinds] } : n \in 1..MaxChanEvents }

\* bytes.Join(chunks, "\n")
RECURSIVE JoinChunks(_)
JoinChunks(cs) ==
    IF cs = <<>> THEN <<>>
    ELSE IF Len(cs) = 1 THEN cs[1]
    ELSE cs[1] \o <<NL>> \o JoinChunks(Tail(cs))

\* decodeSSEEvent over the lines of the buffer: the last id and event values,
\* the data values joined; nil for an event without data that is not done
RECURSIVE decodeLines(_, _, _, _)
decodeLines(b, t, id, chunks) ==
    IF b = <<>> THEN [Type |-> t, ID |-> id, chunks |-> chunks]
    ELSE LET l == Head(b)
         IN  CASE l.field = "id" -> decodeLines(Tail(b), t, l.value, chunks)
               [] l.field = "event" -> decodeLines(Tail(b), l.value, id, chunks)
               [] l.field = "data" -> decodeLines(Tail(b), t, id, Append(chunks, l.value))
               [] OTHER -> decodeLines(Tail(b), t, id, chunks)

decodeSSEEvent(b) ==
    LET e == decodeLines(b, SSETypeDefault, <<>>, <<>>)
        data == JoinChunks(e.chunks)
    IN  IF ~utf8Valid(data) THEN [event |-> NoEvent, isNil |-> TRUE, err |-> ErrInvalidUTF8Data]
        ELSE IF data = <<>> /\ e.Type # TypeDone
        THEN [event |-> NoEvent, isNil |-> TRUE, err |-> Nil]
        ELSE [event |-> [Type |-> e.Type, ID |-> e.ID, Data |-> data], isNil |-> FALSE,
              err |-> Nil]

\* the ctx a call of streamPrediction was given
CtxDone(which) == IF which = "caller" THEN ctxDone ELSE gctxDone

\* sendError: a send that does not block; a send on a closed channel panics
sendError(err) ==
    IF errChanClosed
    THEN /\ panicked' = "errChan"
         /\ UNCHANGED errChan
    ELSE /\ errChan' = IF Len(errChan) < ChanCap THEN Append(errChan, err) ELSE errChan
         /\ UNCHANGED panicked

\* streamPrediction up to the start of its goroutines: the request is made
\* with ctx and handed to r.c.Do, which fails at once under a cancelled ctx
streamPrediction ==
    /\ spPc = "call"
    /\ panicked = ""
    /\ doCalls' = doCalls + 1
    /\ IF CtxDone(spCtx)
       THEN /\ sendError(ErrDo)
            /\ spPc' = "returned"
            /\ UNCHANGED <<chPos, gctxDone, readerPc, lineChanClosed, buf, decoderPc,
                           doneClosed, waiterPc, readerErr>>
       ELSE \/ /\ \E err \in {ErrDo, ErrInvalidStatus} : sendError(err)
               /\ spPc' = "returned"
               /\ UNCHANGED <<chPos, gctxDone, readerPc, lineChanClosed, buf, decoderPc,
                              doneClosed, waiterPc, readerErr>>
            \/ /\ spPc' = "running"
               /\ chPos' = 0
               /\ gctxDone' = FALSE
               /\ readerPc' = "select"
               /\ readerErr' = Nil
               /\ lineChanClosed' = FALSE
               /\ buf' = <<>>
               /\ decoderPc' = "select"
               /\ doneClosed' = FALSE
               /\ waiterPc' = "wait"
               /\ UNCHANGED <<errChan, panicked>>
    /\ UNCHANGED <<chStream, chEnd, ctxDone, spCtx, line, event, sseChan, sseChanClosed,
                   errChanClosed, notChan>>

\* the reading goroutine returns: its deferred close(lineChan), and the
\* group cancels its ctx when the error is not nil
ReaderReturn(err) ==
    /\ readerPc' = "exit"
    /\ readerErr' = err
    /\ lineChanClosed' = TRUE
    /\ gctxDone' = (gctxDone \/ err # Nil)

\* the reading goroutine, its first select: ctx.Done(), done, or default
ReaderSelect ==
    /\ readerPc = "select"
    /\ panicked = ""
    /\ IF gctxDone \/ doneClosed
       THEN \/ /\ gctxDone
               /\ ReaderReturn(ErrCtx)
            \/ /\ doneClosed
               /\ ReaderReturn(Nil)
       ELSE /\ readerPc' = "read"
            /\ UNCHANGED <<readerErr, lineChanClosed, gctxDone>>
    /\ UNCHANGED <<chStream, chEnd, chPos, ctxDone, spPc, spCtx, doCalls, line, buf,
                   decoderPc, event, doneClosed, sseChan, sseChanClosed, errChan,
                   errChanClosed, waiterPc, panicked, notChan>>

\* reader.ReadBytes('\n'): the next line, the end of the connection, or the
\* error of a read that the cancelled request aborts
ReaderReadBytes ==
    /\ readerPc = "read"
    /\ panicked = ""
    /\ \/ /\ chPos < Len(chStream)
          /\ chPos' = chPos + 1
          /\ line' = chStream[chPos + 1]
          /\ readerPc' = "send"
          /\ UNCHANGED <<readerErr, lineChanClosed, gctxDone>>
       \/ /\ ReaderReturn(chEnd)
          /\ UNCHANGED <<chPos, line>>
       \/ /\ ctxDone
          /\ ReaderReturn(ErrCtx)
          /\ UNCHANGED <<chPos, line>>
    /\ UNCHANGED <<chStream, chEnd, ctxDone, spPc, spCtx, doCalls, buf, decoderPc, event,
                   doneClosed, sseChan, sseChanClosed, errChan, errChanClosed, waiterPc,
                   panicked, notChan>>

\* lineChan <- line meets b, ok := <-lineChan: buf.Write(b)
LineTransfer ==
    /\ readerPc = "send"
    /\ decoderPc = "select"
    /\ panicked = ""
    /\ buf' = Append(buf, line)
    /\ readerPc' = "select"
    /\ decoderPc' = IF line = BlankLine THEN "decode" ELSE "select"
    /\ UNCHANGED <<chStream, chEnd, chPos, ctxDone, gctxDone, spPc, spCtx, doCalls, line,
                   readerErr, lineChanClosed, event, doneClosed, sseChan, sseChanClosed,
                   errChan, errChanClosed, waiterPc, panicked, notChan>>

\* the reading goroutine, its second select: case <-ctx.Done()
ReaderSendCtxDone ==
    /\ readerPc = "send"
    /\ panicked = ""
    /\ gctxDone
    /\ ReaderReturn(ErrCtx)
    /\ UNCHANGED <<chStream, chEnd, chPos, ctxDone, spPc, spCtx, doCalls, line, buf,
                   decoderPc, event, doneClosed, sseChan, sseChanClosed, errChan,
                   errChanClosed, waiterPc, panicked, notChan>>

\* the decoding goroutine, its outer select: ctx.Done(), done, or lineChan
\* closed
DecoderSelect ==
    /\ decoderPc = "select"
    /\ panicked = ""
    /\ gctxDone \/ doneClosed \/ lineChanClosed
    /\ decoderPc' = "exit"
    /\ UNCHANGED <<chStream, chEnd, chPos, ctxDone, gctxDone, spPc, spCtx, doCalls,
                   readerPc, line, readerErr, lineChanClosed, buf, event, doneClosed,
                   sseChan, sseChanClosed, errChan, errChanClosed, waiterPc, panicked,
                   notChan>>

\* the decoding goroutine after a blank line: decodeSSEEvent of the buffer
DecoderDecode ==
    /\ decoderPc = "decode"
    /\ panicked = ""
    /\ buf' = <<>>
    /\ LET d == decodeSSEEvent(buf)
       IN  IF d.err # Nil
           THEN /\ sendError(d.err)
                /\ decoderPc' = "select"
                /\ UNCHANGED event
           ELSE IF d.isNil
           THEN /\ decoderPc' = "select"
                /\ UNCHANGED <<event, errChan, panicked>>
           ELSE /\ event' = d.event
                /\ decoderPc' = "deliver"
                /\ UNCHANGED <<errChan, panicked>>
    /\ UNCHANGED <<chStream, chEnd, chPos, ctxDone, gctxDone, spPc, spCtx, doCalls,
                   readerPc, line, readerErr, lineChanClosed, doneClosed, sseChan,
                   sseChanClosed, errChanClosed, waiterPc, notChan>>

\* the decoding goroutine, its inner select: sseChan <- *event, done, or
\* ctx.Done(); a send on the closed sseChan panics
DecoderDeliver ==
    /\ decoderPc = "deliver"
    /\ panicked = ""
    /\ \/ /\ sseChanClosed
          /\ panicked' = "sseChan"
          /\ UNCHANGED <<sseChan, decoderPc>>
       \/ /\ ~sseChanClosed
          /\ Len(sseChan) < ChanCap
          /\ sseChan' = Append(sseChan, event)
          /\ decoderPc' = IF event.Type = TypeDone THEN "closeDone" ELSE "select"
          /\ UNCHANGED panicked
       \/ /\ gctxDone \/ doneClosed
          /\ decoderPc' = "exit"
          /\ UNCHANGED <<sseChan, panicked>>
    /\ UNCHANGED <<chStream, chEnd, chPos, ctxDone, gctxDone, spPc, spCtx, doCalls,
                   readerPc, line, readerErr, lineChanClosed, buf, event, doneClosed,
                   sseChanClosed, errChan, errChanClosed, waiterPc, notChan>>

\* the decoding goroutine after the done event was sent: close(done)
DecoderCloseDone ==
    /\ decoderPc = "closeDone"
    /\ panicked = ""
    /\ doneClosed' = TRUE
    /\ decoderPc' = "exit"
    /\ UNCHANGED <<chStream, chEnd, chPos, ctxDone, gctxDone, spPc, spCtx, doCalls,
                   readerPc, line, readerErr, lineChanClosed, buf, event, sseChan,
                   sseChanClosed, errChan, errChanClosed, waiterPc, panicked, notChan>>

\* the waiting goroutine: g.Wait() returns when the reading goroutine has
\* returned, and cancels the ctx of the group
WaiterWait ==
    /\ waiterPc = "wait"
    /\ readerPc = "exit"
    /\ panicked = ""
    /\ gctxDone' = TRUE
    /\ waiterPc' = IF readerErr = Nil THEN "close"
                   ELSE IF readerErr = ErrEOF THEN "checkDone"
                   ELSE IF readerErr = ErrCtx THEN "close"
                   ELSE "sendError"
    /\ UNCHANGED <<chStream, chEnd, chPos, ctxDone, spPc, spCtx, doCalls, readerPc, line,
                   readerErr, lineChanClosed, buf, decoderPc, event, doneClosed, sseChan,
                   sseChanClosed, errChan, errChanClosed, panicked, notChan>>

\* the waiting goroutine after io.EOF: it returns if done is closed, and
\* calls streamPrediction again with ctx if not
WaiterCheckDone ==
    /\ waiterPc = "checkDone"
    /\ panicked = ""
    /\ waiterPc' = "exit"
    /\ IF doneClosed
       THEN UNCHANGED <<spPc, spCtx>>
       ELSE /\ spPc' = "call"
            /\ spCtx' = "group"
    /\ UNCHANGED <<chStream, chEnd, chPos, ctxDone, gctxDone, doCalls, readerPc, line,
                   readerErr, lineChanClosed, buf, decoderPc, event, doneClosed, sseChan,
                   sseChanClosed, errChan, errChanClosed, panicked, notChan>>

\* the waiting goroutine after another error: r.sendError(err, errChan)
WaiterSendError ==
    /\ waiterPc = "sendError"
    /\ panicked = ""
    /\ sendError(readerErr)
    /\ waiterPc' = "close"
    /\ UNCHANGED <<chStream, chEnd, chPos, ctxDone, gctxDone, spPc, spCtx, doCalls,
                   readerPc, line, readerErr, lineChanClosed, buf, decoderPc, event,
                   doneClosed, sseChan, sseChanClosed, errChanClosed, notChan>>

\* close(sseChan)
WaiterCloseSse ==
    /\ waiterPc = "close"
    /\ panicked = ""
    /\ sseChanClosed' = TRUE
    /\ waiterPc' = "closeErr"
    /\ UNCHANGED <<chStream, chEnd, chPos, ctxDone, gctxDone, spPc, spCtx, doCalls,
                   readerPc, line, readerErr, lineChanClosed, buf, decoderPc, event,
                   doneClosed, sseChan, errChan, errChanClosed, panicked, notChan>>

\* close(errChan)
WaiterCloseErr ==
    /\ waiterPc = "closeErr"
    /\ panicked = ""
    /\ errChanClosed' = TRUE
    /\ waiterPc' = "exit"
    /\ UNCHANGED <<chStream, chEnd, chPos, ctxDone, gctxDone, spPc, spCtx, doCalls,
                   readerPc, line, readerErr, lineChanClosed, buf, decoderPc, event,
                   doneClosed, sseChan, sseChanClosed, errChan, panicked, notChan>>

\* the caller cancels its ctx, and with it the ctx of the group
ChanCancel ==
    /\ ~ctxDone
    /\ panicked = ""
    /\ ctxDone' = TRUE
    /\ gctxDone' = TRUE
    /\ UNCHANGED <<chStream, chEnd, chPos, spPc, spCtx, doCalls, readerPc, line,
                   readerErr, lineChanClosed, buf, decoderPc, event, doneClosed, sseChan,
                   sseChanClosed, errChan, errChanClosed, waiterPc, panicked, notChan>>

InitChan ==
    /\ StreamerInit({<<ServerEvent(1, "done", FALSE)>>}, {0}, {0})
    /\ TextInit
    /\ FileInit
    /\ ReqInit({GET}, {TRUE}, {0})
    /\ DecInit({<<>>})
    /\ ExpInit
    /\ WaitInit({"starting"}, {1})
    /\ ChanInit(ChanStreams, {ErrEOF, ErrReset})
    /\ PageInit({<<>>}, {FALSE})

NextChan ==
    \/ streamPrediction
    \/ ReaderSelect
    \/ ReaderReadBytes
    \/ LineTransfer
    \/ ReaderSendCtxDone
    \/ DecoderSelect
    \/ DecoderDecode
    \/ DecoderDeliver
    \/ DecoderCloseDone
    \/ WaiterWait
    \/ WaiterCheckDone
    \/ WaiterSendError
    \/ WaiterCloseSse
    \/ WaiterCloseErr
    \/ ChanCancel

SpecChan == InitChan /\ [][NextChan]_vars

\* every goroutine that can take a step does take one
SpecChanFair == SpecChan /\ WF_vars(NextChan)

\* ------------------------------------------------------------------ Paginate
notPage == <<config, attempt, lastEventID, decoder, currentStream, body, bodyEnd,
             pc, cancelled, cancelPc, calls, result, returned, nreq, lastReq,
             lastStatus, callReqs, failed, delay, cancelCall, unclosed, textVars,
             fileVars, reqVars, decVars, expVars, waitVars, chanVars>>

ErrFetch == "fetch failed"

\* Results of a page
PageResults == {<<>>, <<"p">>, <<"p", "q">>}

\* resultsChan <- Results meets the range of the consumer; after the send
\* the loop ends when nextURL is nil, and the deferred closes run
PaginateSend ==
    /\ pgPc = "send"
    /\ consumerPc = "range"
    /\ predictions' = Append(predictions, pgResults)
    /\ IF pgNext
       THEN /\ pgPc' = "fetch"
            /\ UNCHANGED <<resultsChanClosed, pgErrChanClosed>>
       ELSE /\ pgPc' = "exit"
            /\ pgErrChanClosed' = TRUE
            /\ resultsChanClosed' = TRUE
    /\ UNCHANGED <<pgResults, pgNext, pgFetches, pgErr, consumerPc, consumerErr, notPage>>

\* client.fetch of the next page
PaginateFetch ==
    /\ pgPc = "fetch"
    /\ pgFetches' = pgFetches + 1
    /\ \/ /\ pgErr' = ErrFetch
          /\ pgPc' = "sendErr"
          /\ UNCHANGED <<pgResults, pgNext>>
       \/ /\ pgResults' \in PageResults
          /\ pgNext' \in (IF pgFetches + 1 < MaxPages THEN BOOLEAN ELSE {FALSE})
          /\ pgPc' = "send"
          /\ UNCHANGED pgErr
    /\ UNCHANGED <<resultsChanClosed, pgErrChanClosed, consumerPc, predictions, consumerErr,
                   notPage>>

\* the consumer's range ends when resultsChan is closed
ConsumerRangeEnd ==
    /\ consumerPc = "range"
    /\ resultsChanClosed
    /\ consumerPc' = "select"
    /\ UNCHANGED <<pgPc, pgResults, pgNext, pgFetches, pgErr, resultsChanClosed,
                   pgErrChanClosed, predictions, consumerErr, notPage>>

\* the consumer's select on errChan with a default; it meets errChan <- err
\* when the goroutine is at that send, after which the goroutine returns
ConsumerSelect ==
    /\ consumerPc = "select"
    /\ consumerPc' = "exit"
    /\ IF pgPc = "sendErr"
       THEN /\ consumerErr' = pgErr
            /\ pgPc' = "exit"
            /\ pgErrChanClosed' = TRUE
            /\ resultsChanClosed' = TRUE
       ELSE /\ consumerErr' = IF pgErrChanClosed THEN Nil ELSE "none"
            /\ UNCHANGED <<pgPc, pgErrChanClosed, resultsChanClosed>>
    /\ UNCHANGED <<pgResults, pgNext, pgFetches, pgErr, predictions, notPage>>

InitPaginate ==
    /\ StreamerInit({<<ServerEvent(1, "done", FALSE)>>}, {0}, {0})
    /\ TextInit
    /\ FileInit
    /\ ReqInit({GET}, {TRUE}, {0})
    /\ DecInit({<<>>})
    /\ ExpInit
    /\ WaitInit({"starting"}, {1})
    /\ ChanInit({<<>>}, {ErrEOF})
    /\ PageInit(PageResults, BOOLEAN)

NextPaginate ==
    \/ PaginateSend
    \/ PaginateFetch
    \/ ConsumerRangeEnd
    \/ ConsumerSelect

SpecPaginate == InitPaginate /\ [][NextPaginate]_vars

\* the goroutine and the consumer take the steps they can take
SpecPaginateFair == SpecPaginate /\ WF_vars(NextPaginate)

TypeOK ==
    /\ pc \in {"idle", "connect", "wait", "inflight", "read"}
    /\ attempt \in 0..(MaxRetriesBound + 1)
    /\ nreq <= attempt

\* ------------------------------------------------------------------- claims
LastReturned == returned[Len(returned)]

DoneReturned == \E i \in 1..Len(returned) : returned[i].Type = TypeDone

\* the connection has ended: the next decoder.Next() on the open stream
\* finds EOF before a complete block
AtConnectionEnd ==
    /\ pc = "read"
    /\ currentStream = "open"
    /\ ~cancelled
    /\ DecoderNext(body, bodyEnd).err \in {ErrEOF, ErrUnexpectedEOF}

\* C1: an event that NextEvent has returned is never returned again, across
\* drops and reconnects, stated for the events that carry an id (the ones
\* the server can resume after).
C1_NoRedelivery ==
    \A i, j \in 1..Len(returned) :
        (returned[i] = returned[j] /\ returned[i].ID # EmptyString) => i = j

\* C2: every request carries Last-Event-ID equal to the ID of the most
\* recently returned event when that ID is non-empty, and no Last-Event-ID
\* header while no event has been returned.
C2_LastEventIDHeader ==
    [][nreq' = nreq + 1 =>
         IF returned = <<>>
         THEN lastReq'.LastEventID = EmptyString
         ELSE (LastReturned.ID # EmptyString => lastReq'.LastEventID = LastReturned.ID)]_vars

C2_Witness ==
    /\ pc = "inflight"
    /\ nreq >= 2
    /\ returned # <<>>
    /\ lastReq.LastEventID # EmptyString
    /\ lastReq.LastEventID = LastReturned.ID

\* C3: after NextEvent has returned a "done" event no further HTTP request
\* is issued and every later NextEvent call returns end-of-stream (io.EOF);
\* calls that end in a read error of the network or the context are left out.
C3_DoneIsTerminal ==
    [][DoneReturned =>
         /\ nreq' = nreq
         /\ (pc # "idle" /\ pc' = "idle" /\ result' \notin {ErrReset, ErrClosedBody, ErrCtx}
               => result' = ErrEOF)]_vars

\* C4: when the connection ends before a terminal event and retries remain
\* (and the context is live), the NextEvent call in progress does not return:
\* it goes on to send a reconnect request, and what the call then returns is
\* the first event of the connection made last.
C4_ReconnectOnEOF ==
    /\ [][AtConnectionEnd /\ pc' # pc => pc' = "connect" /\ result' = "pending"]_vars
    /\ [][(pc = "connect" /\ pc' # pc /\ attempt <= maxRetries)
            => pc' = "wait" /\ result' = "pending"]_vars
    /\ [][(pc = "wait" /\ pc' # pc /\ ~cancelled)
            => pc' = "inflight" /\ nreq' = nreq + 1 /\ result' = "pending"]_vars
    /\ [](pc = "idle" /\ result = Nil /\ callReqs > 0 =>
            LastReturned = Decoded(events[ResumeFrom(events, lastReq.LastEventID) + 1]))

C4_Witness ==
    /\ pc = "idle"
    /\ result = Nil
    /\ calls >= 2
    /\ nreq >= 2
    /\ callReqs > 0
    /\ Len(returned) >= 2

\* C5: once NextEvent has returned an error, every later NextEvent call
\* returns an error and no new HTTP request is issued.
C5_FailedIsTerminal ==
    [][failed =>
         /\ nreq' = nreq
         /\ (pc # "idle" /\ pc' = "idle" => result' # Nil)]_vars

\* C6: if the context is cancelled while NextEvent waits (timer, request in
\* flight, blocking read), an error the call returns is the context's error,
\* never the maximum-retries error or another protocol error.
C6_CancelGivesCtxError ==
    (/\ pc = "idle"
     /\ cancelCall = calls
     /\ cancelPc \in {"wait", "inflight", "read"}
     /\ result \notin {Nil, "none"})
    => result \notin {ErrMaximumRetries, ErrInvalidStatus}

C8_RequestBudget ==
    /\ [](maxRetries > 0 => nreq <= maxRetries + 1)
    /\ [][(maxRetries > 0 /\ nreq = maxRetries + 1 /\ pc = "connect" /\ pc' # pc)
            => pc' = "idle" /\ result' = ErrMaximumRetries /\ nreq' = nreq]_vars

C8_Witness ==
    /\ maxRetries > 0
    /\ nreq = maxRetries + 1
    /\ pc = "idle"
    /\ result = ErrMaximumRetries
    /\ Len(returned) >= 1

\* C9: a response with a status other than 200 makes the NextEvent call in
\* progress return an error at once, with no further request, even if
\* retries remain.
C9_Non200Fatal ==
    [][(pc = "inflight" /\ pc' # pc /\ lastStatus' \notin {0, StatusOK})
         => pc' = "idle" /\ result' = ErrInvalidStatus /\ nreq' = nreq]_vars

C9_Witness ==
    /\ pc = "idle"
    /\ result = ErrInvalidStatus
    /\ lastStatus \in BadStatuses
    /\ attempt <= maxRetries
    /\ nreq >= 2

\* C10: every connect and reconnect request carries Accept:
\* text/event-stream, Cache-Control: no-cache and Connection: keep-alive.
C10_AllThreeHeaders ==
    nreq > 0 =>
        /\ lastReq.Accept = "text/event-stream"
        /\ lastReq.CacheControl = "no-cache"
        /\ lastReq.Connection = "keep-alive"

\* C11: from every state a Close() leaves no connection open (the stream in
\* use and every other response body received are closed), and a further
\* Close() changes nothing.
C11_CloseReleasesAll ==
    [][Close => /\ currentStream' # "open"
                /\ unclosed' = 0
                /\ (currentStream # "open" => UNCHANGED vars)]_vars

\* ---------------------------------------------------- text projection claims
\* the text of a sequence of events: the payloads of its output events
RECURSIVE TextOf(_)
TextOf(evs) ==
    IF evs = <<>> THEN EmptyString
    ELSE LET e == evs[1]
         IN  (IF e.Type = TypeOutput THEN TrimSuffix(e.Data, <<NL>>) ELSE EmptyString)
             \o TextOf(Tail(evs))

IsPrefix(a, b) == Len(a) <= Len(b) /\ SubSeq(b, 1, Len(a)) = a

TextPending == IF tCurrent.set THEN tCurrent.rem ELSE EmptyString

\* a step in which a Read call returns
TextReadReturns == tPc' = "idle" /\ (tPc # "idle" \/ TextRead)

\* C12: between Read calls, the bytes delivered plus the bytes still held of
\* the current event are the concatenation, in event order, of the Data of
\* the output events NextEvent has returned, each without its trailing
\* newline; the Read that meets the done event returns io.EOF, and after it
\* every Read returns 0, io.EOF without a further NextEvent call.
C12_TextIsOutputData ==
    /\ [](tPc = "idle" => tOut \o TextPending = TextOf(returned))
    /\ [](tPc = "idle" /\ DoneReturned =>
            tDone /\ LastReturned.Type = TypeDone /\ tOut = TextOf(returned))
    /\ [][tDone' /\ TextReadReturns => tErr'.kind = ErrEOF /\ tN' = 0]_vars
    /\ [][tDone => calls' = calls /\ nreq' = nreq /\ tOut' = tOut]_vars

C12_Witness ==
    /\ tPc = "idle"
    /\ tDone
    /\ tErr.kind = ErrEOF
    /\ Len(tOut) >= 2
    /\ tBuf = 1

\* C13: whatever the buffer sizes, a Read returns at most len(buf) bytes and
\* they are the next bytes of the text of the events received: the bytes
\* delivered are always a prefix of that text, so no byte of a payload read
\* in several calls is lost, duplicated or reordered.
C13_PartialReads ==
    /\ [](IsPrefix(tOut, TextOf(returned)))
    /\ [][tOut' # tOut =>
            /\ TextReadReturns
            /\ tN' \in 1..tBuf'
            /\ tErr'.kind = Nil
            /\ tOut' = SubSeq(TextOf(returned'), 1, Len(tOut) + tN')]_vars
    /\ [][TextReadReturns /\ tOut' = tOut => tN' = 0]_vars

C13_Witness ==
    /\ tPc = "idle"
    /\ tN = 1
    /\ tCurrent.set
    /\ tCurrent.rem = EmptyString
    /\ Len(tOut) = 4

ErrorEventRead ==
    /\ tPc = "idle"
    /\ \E i \in 1..Len(returned) : returned[i].Type = TypeError

\* C14: once Read has returned the error of an error event (an error that
\* carries the event's Data), no later Read delivers bytes or asks the
\* Streamer for a further event.
C14_ErrorEndsText ==
    /\ [](ErrorEventRead /\ tErr.kind = ErrErrorEvent => tErr.data = LastReturned.Data)
    /\ [][(ErrorEventRead \/ (tPc # "idle" /\ \E i \in 1..(Len(returned) - 1) :
                                                 returned[i].Type = TypeError))
            => calls' = calls /\ tOut' = tOut]_vars

\* the text the server's stream stands for: the payloads of the output
\* events that come before the first done event
RECURSIVE StreamText(_)
StreamText(evs) ==
    IF evs = <<>> \/ evs[1].Type = TypeDone THEN EmptyString
    ELSE (IF evs[1].Type = TypeOutput THEN evs[1].Data ELSE EmptyString)
         \o StreamText(Tail(evs))

\* every event but comments and done carries an id, so that without the
\* comment blocks the server could always resume after the last event read
Resumable(evs) ==
    \A i \in 1..Len(evs) :
        \/ evs[i] = TextEvent(i, "comment")
        \/ evs[i].Type = TypeDone
        \/ evs[i].ID # EmptyString

\* C15: comment-only blocks contribute nothing: for a stream whose other
\* events all carry an id, and whatever the connection drops, the bytes read
\* are a prefix of the text of the stream without its comment blocks.
C15_CommentsInvisible ==
    Resumable(events) => IsPrefix(tOut, StreamText(events))

\* the same, for streams without comment blocks
CommentFree(evs) == \A i \in 1..Len(evs) : evs[i] # TextEvent(i, "comment")

ResumableTextIsPrefix ==
    Resumable(events) /\ CommentFree(events) => IsPrefix(tOut, StreamText(events))

\* ---------------------------------------------------- file projection claims
\* the URLs of the output events among evs, in order
RECURSIVE OutputURLs(_)
OutputURLs(evs) ==
    IF evs = <<>> THEN <<>>
    ELSE LET e == evs[Len(evs)]
             front == OutputURLs(SubSeq(evs, 1, Len(evs) - 1))
         IN  IF e.Type = TypeOutput THEN Append(front, TrimSuffix(e.Data, <<NL>>)) ELSE front

FileURLs == [i \in 1..Len(fFiles) |-> fFiles[i].url]

\* a NextFile call returns in this step
NextFileReturns == fPc' = "idle" /\ (fPc = "await" \/ NextFile)

\* C16: NextFile returns exactly one File per output event, in event order,
\* and returns io.EOF at the done event and on every later call.  Between
\* calls the Files returned so far are, one for one and in order, the output
\* events the Streamer has returned; once done is set every NextFile call
\* returns a nil File and io.EOF.
C16_OneFilePerOutput ==
    /\ [](fPc = "idle" => FileURLs = OutputURLs(returned))
    /\ [](fPc = "idle" /\ DoneReturned => fDone /\ fRet.err.kind = ErrEOF)
    /\ [][fDone' /\ NextFileReturns => fRet'.file = NilFile /\ fRet'.err.kind = ErrEOF]_vars

\* every output event returned so far holds a data URI or an http URL
AllParsable ==
    \A i \in 1..Len(returned) :
        returned[i].Type = TypeOutput =>
            \/ HasPrefix(returned[i].Data, dataScheme)
            \/ HasPrefix(returned[i].Data, httpScheme)

\* for streams of data URIs and http URLs the Files are the output events
ParsableFilesInOrder == fPc = "idle" /\ AllParsable => FileURLs = OutputURLs(returned)

\* C17: NextFile never issues a GET for a file's URL; the GET for an http
\* URL is issued only by a Body call on a File NextFile has returned, for
\* that File's URL, through the client the Streamer uses.
C17_GetOnlyOnBody ==
    /\ [][gets' # gets =>
            /\ bodies' = bodies + 1
            /\ fPc = "idle" /\ fPc' = "idle"
            /\ calls' = calls
            /\ \E i \in 1..Len(fFiles) :
                 /\ fFiles[i].kind = "httpURL"
                 /\ HasPrefix(fFiles[i].url, httpScheme)
                 /\ gets' = Append(gets, [url |-> fFiles[i].url, c |-> streamClient])]_vars
    /\ [][fFiles' # fFiles \/ fPc' # fPc => gets' = gets]_vars
    /\ [](Len(gets) <= bodies)

\* an http File has been returned, the stream was read to its end, and Body
\* has then fetched the file
C17_Witness ==
    /\ fDone
    /\ Len(gets) = 1
    /\ bRet.err = Nil
    /\ bRet.file \in 1..Len(fFiles)
    /\ fFiles[bRet.file].kind = "httpURL"
    /\ gets[1].url = fFiles[bRet.file].url

\* the event is an output event whose Data is neither a data URI nor an
\* http URL
OtherOutput(e) ==
    /\ e.Type = TypeOutput
    /\ ~HasPrefix(e.Data, dataScheme)
    /\ ~HasPrefix(e.Data, httpScheme)

\* C18: for an output event whose Data is neither a data URI nor an http
\* URL, NextFile returns a File and no error (the error is left to Body).
C18_ErrorDeferredToBody ==
    [][fPc = "await" /\ fPc' = "idle" /\ result = Nil /\ OtherOutput(LastReturned)
        => fRet'.file # NilFile /\ fRet'.err.kind = Nil]_vars

\* ------------------------------------------------------ request layer claims
LastStatus == responses[Len(responses)]

\* C19: a further request is issued only after a response whose status is
\* 429, or 5xx when the method is GET; a response with any other error
\* status ends the call in the same step with that response's API error,
\* and a call that has returned issues no request.
C19_RetryOnlyRetryable ==
    /\ [][sent' # sent /\ sent > 0 =>
            /\ Len(responses) = sent
            /\ \/ LastStatus = 429
               \/ (method = "GET" /\ LastStatus \in 500..599)]_vars
    /\ [][/\ responses' # responses
          /\ (responses'[Len(responses')] < 200 \/ responses'[Len(responses')] >= 400)
          /\ responses'[Len(responses')] # 429
          /\ ~(method = "GET" /\ responses'[Len(responses')] \in 500..599)
          => /\ doPc' = "returned"
             /\ doErr' = [kind |-> "APIError", status |-> responses'[Len(responses')]]]_vars
    /\ [][doPc = "returned" => sent' = sent /\ doErr' = doErr]_vars

\* a POST answered 429 and then 500 has returned the error of the 500
C19_Witness ==
    /\ method = "POST"
    /\ responses = <<429, 500>>
    /\ sent = 2
    /\ doPc = "returned"
    /\ doErr = [kind |-> "APIError", status |-> 500]

\* every response so far is a 429 or a 5xx
AllRetryableFailures == \A i \in 1..Len(responses) : responses[i] = 429 \/ responses[i] \in 500..599

\* C20: a GET that has received k < maxRetries responses, all 429 or 5xx,
\* has not returned any of them as an error; when the next response is a
\* 2xx whose body unmarshals, the call returns nil and out holds that body.
C20_RetriedGetSucceeds ==
    /\ [](/\ method = "GET"
          /\ AllRetryableFailures
          /\ Len(responses) = sent
          /\ Len(responses) < maxRetries
          => doPc # "returned")
    /\ [][/\ method = "GET"
          /\ AllRetryableFailures
          /\ Len(responses) < maxRetries
          /\ Len(responses') = Len(responses) + 1
          /\ responses'[Len(responses')] \in 200..299
          /\ doErr'.kind # "failed to unmarshal response"
          => /\ doPc' = "returned"
             /\ doErr' = [kind |-> Nil, status |-> 0]
             /\ (outGiven => out' \in Bodies)]_vars

\* a GET answered 429, 500 and then 200 has returned nil with the body
C20_Witness ==
    /\ method = "GET"
    /\ responses = <<429, 500, 200>>
    /\ maxRetries = 3
    /\ doPc = "returned"
    /\ doErr.kind = Nil
    /\ out = "{}"

\* every response so far has a status that is retried for the method
AllRetried ==
    \A i \in 1..Len(responses) :
        responses[i] = 429 \/ (method = "GET" /\ responses[i] \in 500..599)

\* the requests a call may issue: maxRetries, and one when maxRetries is 0
RequestBudget == IF maxRetries = 0 THEN 1 ELSE maxRetries

\* C21: while every response is a retryable failure the call issues at most
\* maxRetries requests (one when maxRetries is 0); with that many answered
\* it has returned, and what it returns is the API error of the last
\* response.
C21_RetriesExhausted ==
    /\ [](AllRetried /\ Len(responses) = sent => sent <= RequestBudget)
    /\ [](AllRetried /\ Len(responses) = RequestBudget /\ doPc # "sleep" => doPc = "returned")
    /\ [](AllRetried /\ Len(responses) = sent /\ doPc = "returned" =>
            /\ sent = RequestBudget
            /\ doErr = [kind |-> "APIError", status |-> LastStatus])

\* three retryable answers to a GET with maxRetries = 3
C21_Witness ==
    /\ method = "GET"
    /\ maxRetries = 3
    /\ responses = <<429, 500, 429>>
    /\ doPc = "returned"
    /\ doErr = [kind |-> "APIError", status |-> 429]

\* the delay a Retry-After value stands for: seconds, or the time until the
\* date; -1 marks a value that is neither
HeaderDelay(h) ==
    CASE h = "0" -> 0
      [] h = "2" -> 2
      [] h = RetryAfterDate -> 3 - now
      [] OTHER -> -1

HeaderParses(h) == h \in {"0", "2", RetryAfterDate}

\* a response with a retried status arrives in this step
RetriedResponse ==
    /\ Len(responses') = Len(responses) + 1
    /\ LET st == responses'[Len(responses')]
       IN  st = 429 \/ (method = "GET" /\ st \in 500..599)

\* C22: after a retried response the wait is the delay of its Retry-After
\* header when that holds seconds or a date, and Backoff.NextDelay(attempts)
\* otherwise; a delay that is not positive means no wait, and a wait lasts
\* its delay.
C22_RetryAfterHonoured ==
    /\ [][RetriedResponse =>
            LET dly == IF HeaderParses(retryAfter') THEN HeaderDelay(retryAfter')
                       ELSE NextDelay(attempts)
            IN  IF dly > 0 THEN doPc' = "sleep" /\ wait' = dly
                ELSE doPc' # "sleep" /\ wait' = 0]_vars
    /\ [][doPc = "sleep" /\ doPc' # "sleep" => now' = now + wait]_vars

\* the header holds a date three seconds ahead while the backoff is one second
C22_Witness ==
    /\ doPc = "sleep"
    /\ retryAfter = RetryAfterDate
    /\ backoffBase = 1
    /\ now = 0
    /\ wait = 3

\* C23: a wait that the context's end finds in progress ends early: the
\* call returns before the delay is over and without another request.
C23_WaitEndsOnCancel ==
    [][doPc = "sleep" /\ cancelled /\ doPc' # "sleep" =>
        /\ doPc' = "returned"
        /\ now' < now + wait
        /\ sent' = sent]_vars

\* ------------------------------------------------------------ decoder claims
\* a Next call is made in this step, and the bytes it takes from the reader
DecoderCalled == dCalls' = dCalls + 1

Consumed == SubSeq(dIn, 1, Len(dIn) - Len(dIn'))

\* the lines of a run of bytes that ends with a newline, newlines left out
RECURSIVE LinesOf(_)
LinesOf(b) ==
    IF b = <<>> THEN <<>>
    ELSE LET n == CHOOSE i \in 1..Len(b) : b[i] = NL /\ \A j \in 1..(i - 1) : b[j] # NL
         IN  <<SubSeq(b, 1, n - 1)>> \o LinesOf(SubSeq(b, n + 1, Len(b)))

\* position of the first colon of a line, 0 when it has none
FirstColon(l) ==
    IF \E i \in 1..Len(l) : l[i] = ":"
    THEN CHOOSE i \in 1..Len(l) : l[i] = ":" /\ \A j \in 1..(i - 1) : l[j] # ":"
    ELSE 0

FieldName(l) == SubSeq(l, 1, FirstColon(l) - 1)

\* the text after the first colon, without one leading space
FieldValue(l) ==
    LET v == SubSeq(l, FirstColon(l) + 1, Len(l))
    IN  IF v # <<>> /\ v[1] = " " THEN Tail(v) ELSE v

\* the values of the fields called name, in arrival order
RECURSIVE FieldValues(_, _)
FieldValues(ls, name) ==
    IF ls = <<>> THEN <<>>
    ELSE LET rest == FieldValues(Tail(ls), name)
         IN  IF FirstColon(ls[1]) > 0 /\ FieldName(ls[1]) = name
             THEN <<FieldValue(ls[1])>> \o rest
             ELSE rest

RECURSIVE JoinWithNewlines(_)
JoinWithNewlines(vs) ==
    IF vs = <<>> THEN <<>> ELSE vs[1] \o <<NL>> \o JoinWithNewlines(Tail(vs))

EventName == <<"e", "v", "e", "n", "t">>
DataName == <<"d", "a", "t", "a">>
IdName == <<"i", "d">>

\* C24: a Next call that returns no error has read one block up to its
\* blank line; Type is the value of the block's event field, ID the value
\* of its id field, and Data the values of its data fields in order, each
\* followed by a newline.  A value is the text after the first colon less
\* one leading space.
C24_BlockDecoded ==
    [][DecoderCalled /\ dErr' = Nil =>
        LET ls == LinesOf(Consumed)
            types == FieldValues(ls, EventName)
            ids == FieldValues(ls, IdName)
        IN  /\ ls # <<>> /\ ls[Len(ls)] = <<>>
            /\ \A i \in 1..(Len(ls) - 1) : ls[i] # <<>>
            /\ (types # <<>> => dEvent'.Type = types[Len(types)])
            /\ (ids # <<>> => dEvent'.ID = ids[Len(ids)])
            /\ dEvent'.Data = JoinWithNewlines(FieldValues(ls, DataName))]_vars

\* "event: b", "data:  d", "data:c" and the blank line have been decoded
C24_Witness ==
    /\ dErr = Nil
    /\ dEvent.Type = <<"b">>
    /\ dEvent.Data = <<" ", "d", NL, "c", NL>>

\* the bytes hold a blank line: a newline at the start or after a newline
HasBlankLine(b) == \E i \in 1..Len(b) : b[i] = NL /\ (i = 1 \/ b[i - 1] = NL)

\* C25: when the input left holds no blank line, empty input included, Next
\* returns io.ErrUnexpectedEOF, and so no event with a nil error.
C25_EarlyEOF ==
    [][DecoderCalled /\ ~HasBlankLine(dIn) => dErr' = ErrUnexpectedEOF]_vars

\* a second call found the fields of a block and then the end of input
C25_Witness ==
    /\ dCalls = 2
    /\ dErr = ErrUnexpectedEOF
    /\ dEvent.Type = <<"a">>
    /\ dEvent.Data = <<"c", NL>>

\* C26: a Next call made when the input ended right after the blank line of
\* the last block returns the clean end of stream, io.EOF.
C26_CleanEOF ==
    [][DecoderCalled /\ dCalls > 0 /\ dErr = Nil /\ dIn = <<>> => dErr' = ErrEOF]_vars

TypeMessage == <<"m", "e", "s", "s", "a", "g", "e">>

\* C27: a block without an event field is decoded with Type "message".
C27_DefaultType ==
    [][DecoderCalled /\ dErr' = Nil /\ FieldValues(LinesOf(Consumed), EventName) = <<>>
        => dEvent'.Type = TypeMessage]_vars

\* C28: an event returned with a nil error has Data that is valid UTF-8.
C28_ValidUTF8 == dErr = Nil => utf8Valid(dEvent.Data)

\* ------------------------------------------------------------ backoff claims
\* C29: NextDelay(n) of the default backoff lies in
\* [500ms * 2^n, 500ms * 2^n + 50ms) for every n >= 0.
C29_ExponentialRange ==
    expRetries >= 0 =>
        /\ expDelay.hi = expProduct(expRetries).hi
        /\ expDelay.lo >= expProduct(expRetries).lo
        /\ expDelay.lo < expProduct(expRetries).lo + ExpJitterMs

\* the range holds while 500ms * 2^n fits an int64 of nanoseconds
ExponentialRangeInInt64 ==
    expRetries >= 0 /\ DurLeq(expProduct(expRetries), MaxDuration) => C29_ExponentialRange

\* --------------------------------------------------------------- wait claims
\* C30: Wait on a prediction whose status was terminal when it was called
\* returns nil without a polling interval and without a GetPrediction call.
C30_TerminalReturnsAtOnce ==
    wPc = "returned" /\ Terminated(wFirst) /\ ~cancelled =>
        wErr = Nil /\ wTicks = 0 /\ wGets = 0

\* ----------------------------------------------------- Streamer claims, more
\* C31: lastEventID changes only in the step in which NextEvent returns an
\* event with a nil error, and then to that event's ID: not when a block is
\* cut short by the end of the connection, not in connect, not in Close.
C31_LastEventIDOnlyOnReturn ==
    [][lastEventID' # lastEventID =>
        /\ pc = "read" /\ pc' = "idle"
        /\ result' = Nil
        /\ returned' # returned
        /\ lastEventID' = returned'[Len(returned')].ID]_vars

\* the first connection ended before the second event, which has an ID,
\* was returned; lastEventID is still that of the first event
C31_Witness ==
    /\ pc = "connect"
    /\ nreq = 1
    /\ Len(returned) = 1
    /\ lastEventID = IdOf(1)
    /\ Len(events) >= 2
    /\ events[2].ID = IdOf(2)

ZeroEvent == buildEvent(EmptyString, EmptyString, EmptyString)

\* C32: on one connection NextEvent returns the blocks of the stream one
\* for one, a comment-only block as the zero-value event with a nil error,
\* and the events after it as they are.
C32_CommentIsZeroEvent ==
    nreq <= 1 =>
        /\ Len(returned) <= Len(events)
        /\ \A i \in 1..Len(returned) :
              returned[i] = IF events[i] = ServerEvent(i, "comment", FALSE)
                            THEN ZeroEvent
                            ELSE Decoded(events[i])

\* a comment block was returned as the zero event, then an output event
C32_Witness ==
    /\ nreq = 1
    /\ result = Nil
    /\ Len(returned) = 2
    /\ returned[1] = ZeroEvent
    /\ returned[2].Type = TypeOutput
    /\ returned[2].Data = DataOf(2) \o <<NL>>

\* C35: once an event with an ID has been returned, every request sent
\* afterwards carries a Last-Event-ID header that is not empty.
C35_ResumeHeaderKept ==
    [][nreq' = nreq + 1 /\ (\E i \in 1..Len(returned) : returned[i].ID # EmptyString)
        => lastReq'.LastEventID # EmptyString]_vars

\* response bodies that are open: the stream in use and the ones dropped
OpenBodies == (IF currentStream = "open" THEN 1 ELSE 0) + unclosed

\* C36: at most one response body is open at any moment, and after Close
\* none is.
C36_OneBodyAllClosed ==
    /\ [](OpenBodies <= 1)
    /\ [][Close => OpenBodies' = 0]_vars

\* ------------------------------------------------- projections, skipped events
\* C37: when Read passes over an event and asks for the next one, the event
\* passed over is the zero-value event of a comment-only block: it has no data.
C37_SkipsOnlyEmptyBlocks ==
    [][tPc = "await" /\ tPc' = "fetch" => returned[Len(returned)].Data = EmptyString]_vars

\* ------------------------------------------- streamPrediction with channels
\* the reader has read the whole block of a done event from the connection
DoneRead ==
    \E i \in 2..chPos : chStream[i] = BlankLine /\ chStream[i - 1] = FieldLine("event", TypeDone)

\* C33: once the done event has been read from the connection, no request
\* is handed to the HTTP client any more.
C33_NoReconnectAfterDone ==
    [][DoneRead => doCalls' = doCalls]_vars

\* C34: a reconnect while the caller has not cancelled is made with a ctx
\* that is not cancelled.
C34_ReconnectUnderLiveContext ==
    [][doCalls >= 1 /\ doCalls' = doCalls + 1 /\ ~ctxDone => ~CtxDone(spCtx)]_vars

\* C38: there is no send on sseChan or errChan after it was closed.
C38_NoSendAfterClose ==
    panicked = ""

DoneDelivered == \E i \in 1..Len(sseChan) : sseChan[i].Type = TypeDone

\* C39: after the done event was sent on sseChan, sseChan and errChan are
\* eventually closed.
C39_ChannelsEventuallyClosed ==
    DoneDelivered ~> (sseChanClosed /\ errChanClosed)

\* ----------------------------------------------------------------- Paginate
\* C40: after a fetch failed, eventually resultsChan is closed, the consumer
\* has received the error and the goroutine has returned.
C40_ErrorReachesConsumer ==
    (pgErr # Nil) ~> (resultsChanClosed /\ consumerErr = pgErr /\ pgPc = "exit")

====
